---- MODULE Spec2Model ----
(***************************************************************************)
(* A model of the traffic simulation: the message bus (core/comms.py),     *)
(* the traffic light agent (agents/traffic_light.py), the vehicle agent    *)
(* (agents/vehicle.py), the drone agent (agents/drone.py) and the          *)
(* simulation controller's tick (core/controller.py).                      *)
(*                                                                         *)
(* Specifications:                                                         *)
(*   SpecBus         the MessageBus: subscribe, unsubscribe, publish       *)
(*   SpecBusHistory  the MessageBus: publish, get_messages, clear          *)
(*   SpecBusLong     one topic, 150 publishes                              *)
(*   SpecBusReentrant the MessageBus with callbacks that unsubscribe       *)
(*                   themselves when called                                *)
(*   SpecSignalFixed one TrafficLightAgent stepped without environment     *)
(*   SpecSignal      one TrafficLightAgent stepped with vehicle counts     *)
(*   SpecOrch        the SimulationController's ticks                      *)
(*   SpecTally       the controller with more than 25 vehicles held at a   *)
(*                   light                                                 *)
(*   SpecOrchLive    the controller with vehicles only, ticked through     *)
(*                   more than a whole cycle of its light                  *)
(*   SpecOrchHeard   the controller's ticks with outside subscribers on    *)
(*                   its bus                                               *)
(*   SpecGrid        the Grid: add_agent, remove_agent, clear              *)
(*   SpecConstruct   the controller built with small arguments, zero       *)
(*                   included, stepped and asked for its statistics        *)
(*   SpecCreateFair  the constructor's loop that draws the vehicles'       *)
(*                   routes, with fair draws                               *)
(*   SpecMalformed   a light, a vehicle and a drone stepped with views     *)
(*                   that lack fields                                      *)
(*   SpecVehicle     one VehicleAgent stepped with any view                *)
(*   SpecVehicleAny  one VehicleAgent of any route, its own cell included  *)
(*   SpecVehicleRoute one VehicleAgent stepped without obstacles           *)
(*   SpecDrone       one DroneAgent stepped with any view                  *)
(*   SpecDroneLong   one DroneAgent stepped through its battery cycle      *)
(*   SpecDroneQuietFair one DroneAgent never shown a vehicle, step() being *)
(*                   called while allowed                                  *)
(***************************************************************************)
EXTENDS Integers, Sequences, FiniteSets, TLC

VARIABLES
    \* ---- MessageBus (core/comms.py) ----
    subscribers,   \* dict topic -> list of callbacks (keys = topics seen)
    messages,      \* dict topic -> deque(maxlen = max_history)
    max_history,   \* the constructor's argument
    \* ---- observers of the bus (not program state) ----
    busErr,        \* exception raised by the last bus call, or "none"
    issued,        \* handles returned by subscribe and not yet used by their holder
    published,     \* per topic, everything published since the last clear()
    delivered,     \* callback invocations of the last publish, in order
    subCount,      \* number of subscribe calls so far
    misused,       \* some unsubscribe was called with a handle nobody held
    lastCall,      \* the last bus call: its arguments, the state before, the result
    \* ---- one TrafficLightAgent (agents/traffic_light.py) ----
    light,         \* the agent's fields
    \* ---- observers of the light (not program state) ----
    steps,         \* number of step() calls so far
    prevLight,     \* the agent's fields before the last step()
    phaseTicks,    \* step() calls since the phase was entered
    leftTicks,     \* step() calls spent in the phase the last step left, -1 if it left none
    lastEnv,       \* the view of the last step(), <<>> for None
    \* ---- SimulationController (core/controller.py); its message_bus is the
    \* ---- bus above
    grid,          \* Grid: size, cells (cell -> list of agent_info), agents (id -> entry)
    traffic_lights, \* list of TrafficLightAgent
    vehicles,      \* list of VehicleAgent
    drones,        \* list of DroneAgent
    stats,         \* the statistics dict
    current_step,  \* ticks started
    pc,            \* where step() is: [k: index into StepOrder or 0 between ticks, i: agent]
    \* ---- observers of the controller (not program state) ----
    lightTick,     \* per light, the tick of its last step()
    vehTick,       \* per vehicle, the tick of its last step()
    droneTick,     \* per drone, the tick of its last step()
    lightView,     \* per light, the last environment view handed to it
    vehView,       \* per vehicle, the last environment view handed to it
    droneView,     \* per drone, the last environment view handed to it
    emittedNow,    \* congestion anomalies the drones emitted in this tick
    emittedPrev,   \* congestion anomalies the drones emitted in the tick before
    emittedCount,  \* anomalies the drones emitted so far, per type
    phaseLog,      \* the phases step() has run in this tick, in order
    \* ---- one VehicleAgent (agents/vehicle.py) stepped on its own ----
    veh,           \* the vehicle
    \* ---- observers of the vehicle (not program state) ----
    prevVeh,       \* the vehicle before its last step()
    vehSteps,      \* step() calls so far
    trail,         \* the cells the vehicle has been at, the start first
    lastVehEnv,    \* the view of the last step(), <<>> for None
    \* ---- one DroneAgent (agents/drone.py) stepped on its own ----
    drone,         \* the drone
    \* ---- observers of the drone (not program state) ----
    prevDrone,     \* the drone before its last step()
    droneSteps,    \* step() calls so far
    lastView,      \* the vehicle list of the last step()'s view
    lastEmitted,   \* the anomalies the last step() appended
    anomalySeen,   \* some step() so far appended an anomaly
    \* ---- outcomes of calls (not program state) ----
    built,         \* SimulationController(...): its arguments and how it ended
    raised         \* the exception the last print_stats() or the last step() on
                   \* a given view let out, or "none"

busVars == <<subscribers, messages, max_history, busErr, issued, published,
             delivered, subCount, misused, lastCall>>

signalVars == <<light, steps, prevLight, phaseTicks, leftTicks, lastEnv>>

orchVars == <<grid, traffic_lights, vehicles, drones, stats, current_step, pc,
              lightTick, lightView, vehTick, droneTick, vehView, droneView, emittedNow,
              emittedPrev, emittedCount, phaseLog>>

vehVars == <<veh, prevVeh, vehSteps, trail, lastVehEnv>>

droneVars == <<drone, prevDrone, droneSteps, lastView, lastEmitted, anomalySeen>>

callVars == <<built, raised>>

vars == <<busVars, signalVars, orchVars, vehVars, droneVars, callVars>>

----------------------------------------------------------------------------
(* Bounds and input domains *)

\* topics the callers use
Topics == {"anomaly_detected", "vehicle_update"}
\* payloads published in SpecBus
Msgs == {1, 2}
\* capacities the bus is constructed with in SpecBus
HistoryCapacities == {1, 2, 100}
\* subscribe calls per run
MaxSubs == 2
\* publishes per topic between two clears
MaxPublished == 3
\* publishes per topic in SpecBus
MaxBusPublishes == 1
\* handles a caller may pass to unsubscribe
MaxHandle == 1
\* count arguments passed to get_messages
MaxCount == 3
\* publishes of the long run
LongPublishes == 150
\* MessageBus.__init__'s default max_history
DefaultMaxHistory == 100
\* DroneAgent: battery 100, drain 0.5 per step, low below 20; the model counts
\* the battery in halves of a percent
BatteryFull == 200
BatteryDrain == 1
BatteryLow == 40
\* _generate_patrol_waypoints: random.randint(3, 6) random points
MinRandomPoints == 3
MaxRandomPoints == 6
\* step() calls of the fixed-timing run
MaxSignalSteps == 130
\* vehicles counted on one axis near a light
MaxAxisCount == 3
\* one vehicle alone: its grid, step() calls with any view, step() calls
\* without obstacles on the route grid
VehicleGridSizes == {2}
MaxVehicleSteps == 5
MaxPathLen == 3
RouteGridSize == 5
MaxRouteSteps == 9
\* one drone alone: step() calls over more than a battery cycle, and the
\* step() count up to which a return to base is followed to its end
MaxLongSteps == 210
ReturnDeadline == 165
\* one drone alone: step() calls with any view
MaxDroneSteps == 4
\* the controller with a large roster: vehicles, drones and ticks of SpecTally
TallyVehicles == 26
TallyDrones == 4
MaxTallyTicks == 11
\* the controller: grid sizes, roster sizes and ticks of SpecOrch
GridSizes == {2}
NumVehicles == 4
NumDrones == 1
MaxTicks == 3

----------------------------------------------------------------------------
(* Python helpers *)

Min(a, b) == IF a < b THEN a ELSE b
Max(a, b) == IF a > b THEN a ELSE b
Abs(a) == IF a < 0 THEN -a ELSE a

\* d[k] of a defaultdict(list) or defaultdict(deque), read without creating the key
Get(d, k) == IF k \in DOMAIN d THEN d[k] ELSE <<>>
\* d[k] = v
Put(d, k, v) == [x \in (DOMAIN d) \cup {k} |-> IF x = k THEN v ELSE d[x]]
\* list.pop(i) for 1-based position p
RemoveAt(s, p) == [i \in 1..(Len(s) - 1) |-> IF i < p THEN s[i] ELSE s[i + 1]]
\* s[start:] with Python's clipping of the start index
PySliceFrom(s, start) ==
    LET n == Len(s)
        from == IF start < 0 THEN Max(0, n + start) ELSE Min(start, n)
    IN  SubSeq(s, from + 1, n)
\* the last k elements of s (all of s when k >= Len(s))
LastN(s, k) == SubSeq(s, Max(0, Len(s) - k) + 1, Len(s))

----------------------------------------------------------------------------
(* MessageBus *)

\* deque(maxlen=cap).append(m): the oldest element is dropped when full
DequeAppendDropNewest(h, m, cap) == IF Len(h) < cap THEN Append(h, m) ELSE h
DequeAppend(h, m, cap) ==
    IF cap = 0 THEN <<>>
    ELSE IF Len(h) < cap THEN Append(h, m)
    ELSE Append(Tail(h), m)

\* the loop of publish: each callback of the topic's list is called with m
DispatchReversed(subs, t, m) ==
    [i \in 1..Len(subs[t]) |-> <<subs[t][Len(subs[t]) + 1 - i], m>>]
Dispatch(subs, t, m) ==
    [i \in 1..Len(subs[t]) |-> <<subs[t][i], m>>]

\* unsubscribe's effect on the subscriber dict, and the exception it raises
UnsubscribeEffect(subs, t, h) ==
    IF t \in DOMAIN subs /\ h < Len(subs[t])
    THEN IF h >= 0 THEN [subs |-> Put(subs, t, RemoveAt(subs[t], h + 1)), err |-> "none"]
         ELSE IF -h <= Len(subs[t])
              THEN [subs |-> Put(subs, t, RemoveAt(subs[t], Len(subs[t]) + h + 1)),
                    err |-> "none"]
              ELSE [subs |-> subs, err |-> "IndexError"]
    ELSE [subs |-> subs, err |-> "none"]

\* get_messages' return value; count is <<>> for None, <<c>> for a number
GetMessagesResult(msgs, t, count) ==
    IF t \notin DOMAIN msgs THEN <<>>
    ELSE IF count = <<>> THEN msgs[t]
    ELSE PySliceFrom(msgs[t], -count[1])

NoCall == [op |-> "none", topic |-> "", handle |-> 0, cb |-> 0, count |-> <<>>,
           msg |-> 0, before |-> <<>>, hist |-> <<>>, result |-> <<>>]

InitBusWith(cap) ==
    /\ subscribers = <<>>
    /\ messages = <<>>
    /\ max_history = cap
    /\ busErr = "none"
    /\ issued = {}
    /\ published = [t \in Topics |-> <<>>]
    /\ delivered = <<>>
    /\ subCount = 0
    /\ misused = FALSE
    /\ lastCall = NoCall

Publish(t, m) ==
    LET hist == Get(messages, t)
        subs == Put(subscribers, t, Get(subscribers, t))
    IN  /\ messages' = Put(messages, t, DequeAppend(hist, m, max_history))
        /\ subscribers' = subs
        /\ delivered' = Dispatch(subs, t, m)
        /\ published' = [published EXCEPT ![t] = Append(@, m)]
        /\ busErr' = "none"
        /\ lastCall' = [NoCall EXCEPT !.op = "publish", !.topic = t, !.msg = m,
                                      !.before = Get(subscribers, t), !.hist = hist]
        /\ UNCHANGED <<max_history, issued, subCount, misused>>

Subscribe(t, cb) ==
    LET list == Append(Get(subscribers, t), cb)
    IN  /\ subscribers' = Put(subscribers, t, list)
        /\ issued' = issued \cup {[topic |-> t, handle |-> Len(list) - 1, cb |-> cb]}
        /\ busErr' = "none"
        /\ lastCall' = [NoCall EXCEPT !.op = "subscribe", !.topic = t, !.cb = cb,
                                      !.handle = Len(list) - 1,
                                      !.before = Get(subscribers, t)]
        /\ subCount' = subCount + 1
        /\ UNCHANGED <<messages, max_history, published, delivered, misused>>

\* the holder of a live handle uses it
UnsubscribeHeld(r) ==
    LET eff == UnsubscribeEffect(subscribers, r.topic, r.handle)
    IN  /\ subscribers' = eff.subs
        /\ busErr' = eff.err
        /\ issued' = issued \ {r}
        /\ lastCall' = [NoCall EXCEPT !.op = "unsubscribe_held", !.topic = r.topic,
                                      !.cb = r.cb, !.handle = r.handle,
                                      !.before = Get(subscribers, r.topic)]
        /\ UNCHANGED <<messages, max_history, published, delivered, subCount, misused>>

\* unsubscribe with a handle nobody holds for that topic: one already used, or
\* one subscribe never returned
UnsubscribeStale(t, h) ==
    LET eff == UnsubscribeEffect(subscribers, t, h)
    IN  /\ \A r \in issued : ~(r.topic = t /\ r.handle = h)
        /\ subscribers' = eff.subs
        /\ busErr' = eff.err
        /\ lastCall' = [NoCall EXCEPT !.op = "unsubscribe_stale", !.topic = t,
                                      !.handle = h, !.before = Get(subscribers, t)]
        /\ misused' = TRUE
        /\ UNCHANGED <<messages, max_history, issued, published, delivered, subCount>>

\* publish when callbacks may call unsubscribe: the for loop reads the live
\* list self.subscribers[topic] by a running index i (0-based), so a pop
\* made by the callback just called shifts the rest of the list under it.  A
\* callback is [id, quits, handle]; one that quits calls
\* unsubscribe(topic, handle) with the handle subscribe returned to it.
RECURSIVE DispatchLive(_, _, _, _, _)
DispatchLive(subs, t, m, i, calls) ==
    IF i >= Len(subs[t]) THEN [subs |-> subs, calls |-> calls]
    ELSE LET cb    == subs[t][i + 1]
             after == IF cb.quits THEN UnsubscribeEffect(subs, t, cb.handle).subs
                      ELSE subs
         IN  DispatchLive(after, t, m, i + 1, Append(calls, <<cb, m>>))

PublishLive(t, m) ==
    LET hist == Get(messages, t)
        subs == Put(subscribers, t, Get(subscribers, t))
        run  == DispatchLive(subs, t, m, 0, <<>>)
    IN  /\ messages' = Put(messages, t, DequeAppend(hist, m, max_history))
        /\ subscribers' = run.subs
        /\ delivered' = run.calls
        /\ published' = [published EXCEPT ![t] = Append(@, m)]
        /\ issued' = {r \in issued :
                         ~(r.topic = t /\ r.cb.quits
                           /\ \E j \in 1..Len(run.calls) : run.calls[j][1] = r.cb)}
        /\ busErr' = "none"
        /\ lastCall' = [NoCall EXCEPT !.op = "publish", !.topic = t, !.msg = m,
                                      !.before = Get(subscribers, t), !.hist = hist]
        /\ UNCHANGED <<max_history, subCount, misused>>

\* subscribe(t, cb) with a callback that will or will not quit when called
SubscribeCallback(t, quits) ==
    Subscribe(t, [id |-> subCount + 1, quits |-> quits,
                  handle |-> Len(Get(subscribers, t))])

GetMessages(t, count) ==
    /\ lastCall' = [NoCall EXCEPT !.op = "get_messages", !.topic = t, !.count = count,
                                  !.hist = Get(messages, t),
                                  !.result = GetMessagesResult(messages, t, count)]
    /\ busErr' = "none"
    /\ UNCHANGED <<subscribers, messages, max_history, issued, published, delivered, subCount, misused>>

Clear ==
    /\ messages' = [t \in DOMAIN messages |-> <<>>]
    /\ published' = [t \in Topics |-> <<>>]
    /\ busErr' = "none"
    /\ lastCall' = [NoCall EXCEPT !.op = "clear"]
    /\ UNCHANGED <<subscribers, max_history, issued, delivered, subCount, misused>>

----------------------------------------------------------------------------------------------------------------------------------------
(* TrafficLightAgent *)

LightStates == {"RED", "YELLOW", "GREEN"}

\* dict.get(k, default) on an environment record; <<>> is None or {}
DictGet(d, k, default) == IF k \in DOMAIN d THEN d[k] ELSE default

\* TrafficLightAgent.__init__
NewLight(id, pos, st) ==
    [id |-> id, position |-> pos, state |-> st, timer |-> 0,
     red_duration |-> 30, yellow_duration |-> 5, green_duration |-> 30,
     vehicles_passed |-> 0, congestion_level |-> 0, direction |-> 0]

\* _analyze_traffic without the max(15, ...) floor
AnalyzeTrafficNoFloor(l, env) ==
    LET ns == DictGet(env, "vehicles_ns", 0)
        ew == DictGet(env, "vehicles_ew", 0)
    IN  IF 2 * ns > 3 * ew /\ l.direction = 1
        THEN [l EXCEPT !.green_duration = l.green_duration - 5]
        ELSE IF 2 * ew > 3 * ns /\ l.direction = 0
        THEN [l EXCEPT !.green_duration = l.green_duration - 5]
        ELSE [l EXCEPT !.green_duration = Min(45, l.green_duration + 1)]

\* _analyze_traffic without the tests of self.direction
AnalyzeTrafficAnyAxis(l, env) ==
    LET ns == DictGet(env, "vehicles_ns", 0)
        ew == DictGet(env, "vehicles_ew", 0)
    IN  IF 2 * ns > 3 * ew
        THEN [l EXCEPT !.green_duration = Max(15, l.green_duration - 5)]
        ELSE IF 2 * ew > 3 * ns
        THEN [l EXCEPT !.green_duration = Max(15, l.green_duration - 5)]
        ELSE [l EXCEPT !.green_duration = Min(45, l.green_duration + 1)]

\* _analyze_traffic: a * 1.5 < b is compared as 3a < 2b
AnalyzeTraffic(l, env) ==
    LET ns == DictGet(env, "vehicles_ns", 0)
        ew == DictGet(env, "vehicles_ew", 0)
    IN  IF 2 * ns > 3 * ew /\ l.direction = 1
        THEN [l EXCEPT !.green_duration = Max(15, l.green_duration - 5)]
        ELSE IF 2 * ew > 3 * ns /\ l.direction = 0
        THEN [l EXCEPT !.green_duration = Max(15, l.green_duration - 5)]
        ELSE [l EXCEPT !.green_duration = Min(45, l.green_duration + 1)]

\* the state machine at the end of step()
PhaseAdvanceLate(l) ==
    IF l.state = "RED" /\ l.timer > l.red_duration
    THEN [l EXCEPT !.state = "GREEN", !.timer = 0, !.direction = 1 - l.direction]
    ELSE IF l.state = "YELLOW" /\ l.timer > l.yellow_duration
    THEN [l EXCEPT !.state = "RED", !.timer = 0]
    ELSE IF l.state = "GREEN" /\ l.timer > l.green_duration
    THEN [l EXCEPT !.state = "YELLOW", !.timer = 0]
    ELSE l
PhaseAdvanceToggleOnRed(l) ==
    IF l.state = "RED" /\ l.timer >= l.red_duration
    THEN [l EXCEPT !.state = "GREEN", !.timer = 0, !.direction = 1 - l.direction]
    ELSE IF l.state = "YELLOW" /\ l.timer >= l.yellow_duration
    THEN [l EXCEPT !.state = "RED", !.timer = 0, !.direction = 1 - l.direction]
    ELSE IF l.state = "GREEN" /\ l.timer >= l.green_duration
    THEN [l EXCEPT !.state = "YELLOW", !.timer = 0]
    ELSE l
PhaseAdvanceNoToggle(l) ==
    IF l.state = "RED" /\ l.timer >= l.red_duration
    THEN [l EXCEPT !.state = "GREEN", !.timer = 0]
    ELSE IF l.state = "YELLOW" /\ l.timer >= l.yellow_duration
    THEN [l EXCEPT !.state = "RED", !.timer = 0]
    ELSE IF l.state = "GREEN" /\ l.timer >= l.green_duration
    THEN [l EXCEPT !.state = "YELLOW", !.timer = 0]
    ELSE l
PhaseAdvance(l) ==
    IF l.state = "RED"
    THEN IF l.timer >= l.red_duration
         THEN [l EXCEPT !.state = "GREEN", !.timer = 0, !.direction = 1 - l.direction]
         ELSE l
    ELSE IF l.state = "YELLOW"
    THEN IF l.timer >= l.yellow_duration
         THEN [l EXCEPT !.state = "RED", !.timer = 0]
         ELSE l
    ELSE IF l.state = "GREEN"
    THEN IF l.timer >= l.green_duration
         THEN [l EXCEPT !.state = "YELLOW", !.timer = 0]
         ELSE l
    ELSE l

\* TrafficLightAgent.step(environment_data); env = <<>> is falsy
LightStep(l, env) ==
    LET ticked == [l EXCEPT !.timer = l.timer + 1]
        tuned  == IF env # <<>> THEN AnalyzeTraffic(ticked, env) ELSE ticked
    IN  PhaseAdvance(tuned)

\* TrafficLightAgent.get_state()
LightGetState(l) ==
    [id |-> l.id, position |-> l.position, state |-> l.state,
     direction |-> IF l.direction = 1 THEN "East-West" ELSE "North-South",
     timer |-> l.timer, congestion_level |-> l.congestion_level]


InitSignalWith(st) ==
    /\ light = NewLight("TL-1", <<1, 1>>, st)
    /\ steps = 0
    /\ prevLight = light
    /\ phaseTicks = 0
    /\ leftTicks = -1
    /\ lastEnv = <<>>

\* one step() call and what the observers record of it
SignalStep(env) ==
    LET new == LightStep(light, env)
    IN  /\ light' = new
        /\ prevLight' = light
        /\ lastEnv' = env
        /\ IF new.state # light.state
           THEN phaseTicks' = 0 /\ leftTicks' = phaseTicks + 1
           ELSE phaseTicks' = phaseTicks + 1 /\ leftTicks' = -1

StepFixed ==
    /\ steps < MaxSignalSteps
    /\ SignalStep(<<>>)
    /\ steps' = steps + 1

StepAdaptive(ns, ew) ==
    /\ SignalStep([vehicles_ns |-> ns, vehicles_ew |-> ew])
    /\ steps' = steps

----------------------------------------------------------------------------
(* VehicleAgent *)

Sign(a) == IF a > 0 THEN 1 ELSE IF a < 0 THEN -1 ELSE 0
ManhattanDist(p, q) == Abs(p[1] - q[1]) + Abs(p[2] - q[2])
InGrid(p, gs) == 0 <= p[1] /\ p[1] < gs /\ 0 <= p[2] /\ p[2] < gs

\* _calculate_simple_path with the y-axis cells first
CalculateSimplePathYFirst(pos, dest) ==
    LET xd == IF dest[1] > pos[1] THEN 1 ELSE -1
        yd == IF dest[2] > pos[2] THEN 1 ELSE -1
        ys == [i \in 1..Abs(dest[2] - pos[2]) |-> <<pos[1], pos[2] + yd * i>>]
        xs == [i \in 1..Abs(dest[1] - pos[1]) |-> <<pos[1] + xd * i, dest[2]>>]
    IN  ys \o xs

\* _calculate_simple_path without its second loop: the x-axis cells only
CalculateSimplePathXOnly(pos, dest) ==
    LET xd == IF dest[1] > pos[1] THEN 1 ELSE -1
    IN  [i \in 1..Abs(dest[1] - pos[1]) |-> <<pos[1] + xd * i, pos[2]>>]

\* _calculate_simple_path: the x-axis cells first, then the y-axis cells
CalculateSimplePath(pos, dest) ==
    LET xd == IF dest[1] > pos[1] THEN 1 ELSE -1
        yd == IF dest[2] > pos[2] THEN 1 ELSE -1
        xs == [i \in 1..Abs(dest[1] - pos[1]) |-> <<pos[1] + xd * i, pos[2]>>]
        ys == [i \in 1..Abs(dest[2] - pos[2]) |-> <<dest[1], pos[2] + yd * i>>]
    IN  xs \o ys

\* VehicleAgent.__init__
NewVehicle(id, start, dest, gs) ==
    [id |-> id, position |-> start, destination |-> dest, grid_size |-> gs,
     state |-> "MOVING", path |-> CalculateSimplePath(start, dest), path_index |-> 0,
     waiting_time |-> 0, total_travel_time |-> 0, stops |-> 0]

\* is_moving_north_south; path_index counts from 0, sequences from 1
IsMovingNorthSouth(v) ==
    IF v.path_index + 1 < Len(v.path)
    THEN v.path[v.path_index + 1][1] = v.position[1]
    ELSE FALSE

\* VehicleAgent.get_state() (without the formatted 'progress' text)
VehicleGetState(v) ==
    [id |-> v.id, position |-> v.position, destination |-> v.destination,
     state |-> v.state, waiting_time |-> v.waiting_time,
     total_travel_time |-> v.total_travel_time, stops |-> v.stops]

\* the test of step() on one light record of the view
IsRedForUs(v, lt) ==
    \/ lt.state = "RED"
    \/ lt.state = "YELLOW"
    \/ (lt.direction = "East-West" /\ IsMovingNorthSouth(v))
    \/ (lt.direction = "North-South" /\ ~IsMovingNorthSouth(v))

\* the cells random.choice of the four unit moves can give, inside the grid
DetourCells(cur, gs) ==
    {c \in {<<cur[1], cur[2] + 1>>, <<cur[1] + 1, cur[2]>>,
            <<cur[1], cur[2] - 1>>, <<cur[1] - 1, cur[2]>>} : InGrid(c, gs)}

\* the loop of _recalculate_path: every new path it can build from the
\* remaining cells (per cell: no detour, or one in-grid neighbour of the
\* cell before it)
RECURSIVE RecalcPaths(_, _, _)
RecalcPaths(cur, remaining, gs) ==
    IF remaining = <<>> THEN {<<>>}
    ELSE LET nxt  == Head(remaining)
             rest == RecalcPaths(nxt, Tail(remaining), gs)
         IN  {<<nxt>> \o r : r \in rest}
             \cup {<<d, nxt>> \o r : d \in DetourCells(cur, gs), r \in rest}

\* _recalculate_path: the vehicles it can leave
Recalculated(v) ==
    {[v EXCEPT !.path = SubSeq(v.path, 1, v.path_index) \o np] :
        np \in RecalcPaths(v.position,
                           SubSeq(v.path, v.path_index + 1, Len(v.path)),
                           v.grid_size)}

\* the traffic-light loop of step(): TRUE when the vehicle waits and returns
WaitsAtLight(v, env) ==
    /\ env # <<>>
    /\ "traffic_lights" \in DOMAIN env
    /\ \E i \in 1..Len(env.traffic_lights) :
          /\ env.traffic_lights[i].position = v.position
          /\ IsRedForUs(v, env.traffic_lights[i])

\* the congestion loop of step() from area i on: the outcomes
\* [v, returned], returned when the vehicle was slowed and step() returned
RECURSIVE CongestionLoop(_, _, _)
CongestionLoop(v, areas, i) ==
    IF i > Len(areas) THEN {[v |-> v, returned |-> FALSE]}
    ELSE IF areas[i].position = v.position /\ areas[i].level > 7
    THEN UNION {CongestionLoop([w EXCEPT !.state = "MOVING"], areas, i + 1) :
                   w \in Recalculated([v EXCEPT !.state = "REROUTING"])}
         \cup {[v |-> [v EXCEPT !.waiting_time = v.waiting_time + 1],
                returned |-> TRUE]}
    ELSE CongestionLoop(v, areas, i + 1)

\* the end of step(): count the stop, move to the next path cell, arrive
MoveAlongPath(v) ==
    LET w == [v EXCEPT !.stops = IF v.state = "WAITING" THEN v.stops + 1 ELSE v.stops,
                       !.state = "MOVING"]
    IN  IF w.path_index < Len(w.path)
        THEN LET m == [w EXCEPT !.position = w.path[w.path_index + 1],
                                !.path_index = w.path_index + 1]
             IN  IF m.position = m.destination
                 THEN [m EXCEPT !.state = "ARRIVED"]
                 ELSE m
        ELSE [w EXCEPT !.state = "ARRIVED"]

\* step() without the early return of an ARRIVED vehicle
VehicleStepNoTerminal(v, env) ==
    LET t == [v EXCEPT !.total_travel_time = v.total_travel_time + 1]
    IN  IF WaitsAtLight(t, env)
        THEN {[t EXCEPT !.state = "WAITING", !.waiting_time = t.waiting_time + 1]}
        ELSE LET outs == IF env # <<>> /\ "congestion" \in DOMAIN env
                         THEN CongestionLoop(t, env.congestion, 1)
                         ELSE {[v |-> t, returned |-> FALSE]}
             IN  {IF o.returned THEN o.v ELSE MoveAlongPath(o.v) : o \in outs}

\* VehicleAgent.step(environment_data): the vehicles it can leave
VehicleStep(v, env) ==
    LET t == [v EXCEPT !.total_travel_time = v.total_travel_time + 1]
    IN  IF t.state = "ARRIVED" THEN {t}
        ELSE IF WaitsAtLight(t, env)
        THEN {[t EXCEPT !.state = "WAITING", !.waiting_time = t.waiting_time + 1]}
        ELSE LET outs == IF env # <<>> /\ "congestion" \in DOMAIN env
                         THEN CongestionLoop(t, env.congestion, 1)
                         ELSE {[v |-> t, returned |-> FALSE]}
             IN  {IF o.returned THEN o.v ELSE MoveAlongPath(o.v) : o \in outs}

\* a vehicle constructed and not yet stepped
InitVehWith(start, dest, gs) ==
    /\ veh = NewVehicle(<<"V", 1>>, start, dest, gs)
    /\ prevVeh = veh
    /\ vehSteps = 0
    /\ trail = <<start>>
    /\ lastVehEnv = <<>>

\* one step(env) call and what the observers record of it
StepVehicle(env) ==
    /\ \E new \in VehicleStep(veh, env) :
          /\ veh' = new
          /\ trail' = IF new.position # veh.position THEN Append(trail, new.position)
                      ELSE trail
    /\ prevVeh' = veh
    /\ vehSteps' = vehSteps + 1
    /\ lastVehEnv' = env

----------------------------------------------------------------------------
(* DroneAgent *)

BaseCell == <<0, 0>>

BoxCells(area) ==
    {<<x, y>> : x \in area[1][1]..area[2][1], y \in area[1][2]..area[2][2]}
Corners(area) ==
    << <<area[1][1], area[1][2]>>, <<area[2][1], area[1][2]>>,
       <<area[2][1], area[2][2]>>, <<area[1][1], area[2][2]>> >>
CountIn(s, c) == Cardinality({i \in DOMAIN s : s[i] = c})

\* _generate_patrol_waypoints before the own position is appended: the four
\* corners and 3 to 6 random cells of the box, shuffled
PatrolShuffles(area) ==
    UNION {{w \in [1..(4 + k) -> BoxCells(area)] :
               \A c \in BoxCells(area) : CountIn(w, c) >= CountIn(Corners(area), c)} :
           k \in MinRandomPoints..MaxRandomPoints}

\* DroneAgent.__init__; shuffled \in PatrolShuffles(area)
NewDrone(id, start, gs, area, shuffled) ==
    [id |-> id, position |-> start, grid_size |-> gs, state |-> "PATROLLING",
     patrol_area |-> area, battery |-> BatteryFull,
     waypoints |-> Append(shuffled, start), current_waypoint_index |-> 0,
     detected_anomalies |-> <<>>]

NoAnomaly ==
    [type |-> "", position |-> <<0, 0>>, vehicles |-> 0, severity |-> 0,
     vehicle_id |-> "", waiting_time |-> 0]

\* the report of _monitor_traffic without the return to PATROLLING
ReportAndStay(d, anomaly) ==
    [d EXCEPT !.state = "REPORTING", !.detected_anomalies = Append(@, anomaly)]

\* one report of _monitor_traffic: REPORTING, append the anomaly, PATROLLING
Report(d, anomaly) ==
    LET r == [d EXCEPT !.state = "REPORTING",
                       !.detected_anomalies = Append(@, anomaly)]
    IN  [r EXCEPT !.state = "PATROLLING"]

\* the vehicles of the view within Manhattan distance 2, in view order
NearbyVehicles(pos, vs) ==
    SelectSeq(vs, LAMBDA v : ManhattanDist(pos, v.position) <= 2)

\* the incident loop of _monitor_traffic from vehicle i on
RECURSIVE IncidentLoop(_, _, _)
IncidentLoop(d, near, i) ==
    IF i > Len(near) THEN d
    ELSE IF near[i].state = "WAITING" /\ near[i].waiting_time > 10
    THEN IncidentLoop(
             Report(d, [NoAnomaly EXCEPT !.type = "incident",
                                         !.position = near[i].position,
                                         !.vehicle_id = near[i].id,
                                         !.waiting_time = near[i].waiting_time]),
             near, i + 1)
    ELSE IncidentLoop(d, near, i + 1)

\* _monitor_traffic reporting congestion from three vehicles on
MonitorTrafficFromThree(d, vs) ==
    LET near == NearbyVehicles(d.position, vs)
        c    == IF Len(near) >= 3
                THEN Report(d, [NoAnomaly EXCEPT !.type = "congestion",
                                                 !.position = d.position,
                                                 !.vehicles = Len(near),
                                                 !.severity = Min(10, Len(near))])
                ELSE d
    IN  IncidentLoop(c, near, 1)

\* _monitor_traffic(vehicles)
MonitorTraffic(d, vs) ==
    LET near == NearbyVehicles(d.position, vs)
        c    == IF Len(near) > 3
                THEN Report(d, [NoAnomaly EXCEPT !.type = "congestion",
                                                 !.position = d.position,
                                                 !.vehicles = Len(near),
                                                 !.severity = Min(10, Len(near))])
                ELSE d
    IN  IncidentLoop(c, near, 1)

\* the move of step() without the division by the distance
MoveComponentUnscaled(a, b) == a

\* int(round(a / max(1, sqrt(a*a + b*b)))): one unit towards the target when
\* |a| is more than half the distance, i.e. 3a^2 > b^2 (no integers tie)
MoveComponent(a, b) == IF 3 * a * a > b * b THEN Sign(a) ELSE 0

Clamp(x, gs) == Max(0, Min(gs - 1, x))

\* the move of step() towards the current waypoint; shuffled is what
\* _generate_patrol_waypoints draws if the list is exhausted
MoveToWaypoint(d, shuffled) ==
    IF d.current_waypoint_index < Len(d.waypoints)
    THEN LET target == d.waypoints[d.current_waypoint_index + 1]
             dx == target[1] - d.position[1]
             dy == target[2] - d.position[2]
             np == <<Clamp(d.position[1] + MoveComponent(dx, dy), d.grid_size),
                     Clamp(d.position[2] + MoveComponent(dy, dx), d.grid_size)>>
             m  == [d EXCEPT !.position = np]
         IN  IF Abs(np[1] - target[1]) <= 1 /\ Abs(np[2] - target[2]) <= 1
             THEN IF m.current_waypoint_index + 1 >= Len(m.waypoints)
                  THEN [m EXCEPT !.current_waypoint_index = 0,
                                 !.waypoints = Append(shuffled, np)]
                  ELSE [m EXCEPT !.current_waypoint_index = @ + 1]
             ELSE m
    ELSE d

\* step() turning back at battery <= 20 instead of < 20
DroneStepWithLowAtThreshold(d, env, shufRecharge, shufLoop) ==
    LET drained == [d EXCEPT !.battery = d.battery - BatteryDrain]
        low == IF drained.battery <= BatteryLow /\ drained.state # "RETURNING"
               THEN [drained EXCEPT !.state = "RETURNING",
                                    !.waypoints = <<drained.position, BaseCell>>,
                                    !.current_waypoint_index = 0]
               ELSE drained
        charged == IF low.state = "RETURNING" /\ low.position = BaseCell
                   THEN [low EXCEPT !.battery = BatteryFull,
                                    !.state = "PATROLLING",
                                    !.waypoints = Append(shufRecharge, low.position),
                                    !.current_waypoint_index = 0]
                   ELSE low
        seen == IF env # <<>> /\ "vehicles" \in DOMAIN env
                THEN MonitorTraffic(charged, env.vehicles)
                ELSE charged
    IN  MoveToWaypoint(seen, shufLoop)

\* DroneAgent.step(environment_data), given what the two calls of
\* _generate_patrol_waypoints draw (at the recharge, at the end of the list)
DroneStepWith(d, env, shufRecharge, shufLoop) ==
    LET drained == [d EXCEPT !.battery = d.battery - BatteryDrain]
        low == IF drained.battery < BatteryLow /\ drained.state # "RETURNING"
               THEN [drained EXCEPT !.state = "RETURNING",
                                    !.waypoints = <<drained.position, BaseCell>>,
                                    !.current_waypoint_index = 0]
               ELSE drained
        charged == IF low.state = "RETURNING" /\ low.position = BaseCell
                   THEN [low EXCEPT !.battery = BatteryFull,
                                    !.state = "PATROLLING",
                                    !.waypoints = Append(shufRecharge, low.position),
                                    !.current_waypoint_index = 0]
                   ELSE low
        seen == IF env # <<>> /\ "vehicles" \in DOMAIN env
                THEN MonitorTraffic(charged, env.vehicles)
                ELSE charged
    IN  MoveToWaypoint(seen, shufLoop)

\* DroneAgent.step(environment_data): the drones it can leave
DroneStep(d, env) ==
    {DroneStepWith(d, env, a, b) :
        a \in PatrolShuffles(d.patrol_area), b \in PatrolShuffles(d.patrol_area)}

\* DroneAgent.get_state() (battery as a number, not formatted)
DroneGetState(d) ==
    [id |-> d.id, position |-> d.position, state |-> d.state, battery |-> d.battery,
     anomalies_detected |-> Len(d.detected_anomalies)]

\* a drone constructed and not yet stepped
InitDroneWith(start, gs, area, shuffled) ==
    /\ drone = NewDrone(<<"D", 1>>, start, gs, area, shuffled)
    /\ prevDrone = drone
    /\ droneSteps = 0
    /\ lastView = <<>>
    /\ lastEmitted = <<>>
    /\ anomalySeen = FALSE

\* one step(env) call, the waypoint draws being a and b, followed by the
\* caller emptying detected_anomalies as _update_drones does; and what the
\* observers record of it
StepDrone(vs, a, b) ==
    LET new == DroneStepWith(drone, [vehicles |-> vs], a, b)
    IN  /\ drone' = [new EXCEPT !.detected_anomalies = <<>>]
        /\ prevDrone' = drone
        /\ droneSteps' = droneSteps + 1
        /\ lastView' = vs
        /\ lastEmitted' = new.detected_anomalies
        /\ anomalySeen' = (anomalySeen \/ new.detected_anomalies # <<>>)

----------------------------------------------------------------------------
(* The agents' step() on views that may lack fields: a dict is a record,    *)
(* a missing key a field outside its DOMAIN, and d[k] on a missing key      *)
(* raises KeyError, which step() does not catch.                            *)

\* the dict d without the key k
Without(d, k) == [f \in (DOMAIN d) \ {k} |-> d[f]]

Has(d, k) == k \in DOMAIN d

\* step() left by a KeyError, the agent being a by then
KeyError(a) == [v |-> a, raised |-> "KeyError", returned |-> TRUE]

Completed(a, returned) == [v |-> a, raised |-> "none", returned |-> returned]

RECURSIVE LightLoopOn(_, _, _)
\* the traffic-light loop of VehicleAgent.step() from record i on; returned
\* when step() is over (the vehicle waits, or KeyError)
LightLoopOn(v, lights, i) ==
    IF i > Len(lights) THEN Completed(v, FALSE)
    ELSE LET lt == lights[i]
             w  == [v EXCEPT !.state = "WAITING", !.waiting_time = v.waiting_time + 1]
         IN  IF ~Has(lt, "position") THEN KeyError(v)
             ELSE IF lt.position # v.position THEN LightLoopOn(v, lights, i + 1)
             ELSE IF ~Has(lt, "state") THEN KeyError(v)
             ELSE IF lt.state \notin {"RED", "YELLOW"} /\ ~Has(lt, "direction")
             THEN KeyError(v)
             ELSE IF IsRedForUs(v, lt)
             THEN IF Has(lt, "id") THEN Completed(w, TRUE) ELSE KeyError(w)
             ELSE LightLoopOn(v, lights, i + 1)

RECURSIVE CongestionLoopOn(_, _, _)
\* the congestion loop of VehicleAgent.step() from record i on: the outcomes
CongestionLoopOn(v, areas, i) ==
    IF i > Len(areas) THEN {Completed(v, FALSE)}
    ELSE LET a == areas[i]
         IN  IF ~Has(a, "position") THEN {KeyError(v)}
             ELSE IF a.position # v.position THEN CongestionLoopOn(v, areas, i + 1)
             ELSE IF ~Has(a, "level") THEN {KeyError(v)}
             ELSE IF a.level > 7
             THEN UNION {CongestionLoopOn([w EXCEPT !.state = "MOVING"], areas, i + 1) :
                            w \in Recalculated([v EXCEPT !.state = "REROUTING"])}
                  \cup {Completed([v EXCEPT !.waiting_time = v.waiting_time + 1], TRUE)}
             ELSE CongestionLoopOn(v, areas, i + 1)

\* VehicleAgent.step(environment_data) on such a view: the outcomes
\* [v, raised]
VehicleStepOn(v, env) ==
    LET t == [v EXCEPT !.total_travel_time = v.total_travel_time + 1]
        Out(o) == [v |-> o.v, raised |-> o.raised]
    IN  IF t.state = "ARRIVED" THEN {[v |-> t, raised |-> "none"]}
        ELSE LET l == IF env # <<>> /\ Has(env, "traffic_lights")
                      THEN LightLoopOn(t, env.traffic_lights, 1)
                      ELSE Completed(t, FALSE)
             IN  IF l.returned THEN {Out(l)}
                 ELSE LET outs == IF env # <<>> /\ Has(env, "congestion")
                                  THEN CongestionLoopOn(t, env.congestion, 1)
                                  ELSE {Completed(t, FALSE)}
                      IN  {IF o.returned THEN Out(o)
                           ELSE [v |-> MoveAlongPath(o.v), raised |-> "none"] : o \in outs}

RECURSIVE IncidentLoopOn(_, _, _)
\* the incident loop of _monitor_traffic from vehicle record i on
IncidentLoopOn(d, near, i) ==
    IF i > Len(near) THEN Completed(d, FALSE)
    ELSE LET r == near[i]
         IN  IF ~Has(r, "state") THEN KeyError(d)
             ELSE IF r.state # "WAITING" THEN IncidentLoopOn(d, near, i + 1)
             ELSE IF ~Has(r, "waiting_time") THEN KeyError(d)
             ELSE IF r.waiting_time <= 10 THEN IncidentLoopOn(d, near, i + 1)
             ELSE IF ~Has(r, "id") THEN KeyError([d EXCEPT !.state = "REPORTING"])
             ELSE IncidentLoopOn(
                      Report(d, [NoAnomaly EXCEPT !.type = "incident",
                                                  !.position = r.position,
                                                  !.vehicle_id = r.id,
                                                  !.waiting_time = r.waiting_time]),
                      near, i + 1)

\* _monitor_traffic(vehicles) on such records
MonitorTrafficOn(d, vs) ==
    IF \E i \in 1..Len(vs) : ~Has(vs[i], "position") THEN KeyError(d)
    ELSE LET near == NearbyVehicles(d.position, vs)
             c    == IF Len(near) > 3
                     THEN Report(d, [NoAnomaly EXCEPT !.type = "congestion",
                                                      !.position = d.position,
                                                      !.vehicles = Len(near),
                                                      !.severity = Min(10, Len(near))])
                     ELSE d
         IN  IncidentLoopOn(c, near, 1)

\* the start of DroneAgent.step(): battery drain, low battery, recharge
BeforeMonitor(d, shufRecharge) ==
    LET drained == [d EXCEPT !.battery = d.battery - BatteryDrain]
        low == IF drained.battery < BatteryLow /\ drained.state # "RETURNING"
               THEN [drained EXCEPT !.state = "RETURNING",
                                    !.waypoints = <<drained.position, BaseCell>>,
                                    !.current_waypoint_index = 0]
               ELSE drained
    IN  IF low.state = "RETURNING" /\ low.position = BaseCell
        THEN [low EXCEPT !.battery = BatteryFull,
                         !.state = "PATROLLING",
                         !.waypoints = Append(shufRecharge, low.position),
                         !.current_waypoint_index = 0]
        ELSE low

\* DroneAgent.step(environment_data) on such a view: [v, raised]
DroneStepOn(d, env, shufRecharge, shufLoop) ==
    LET charged == BeforeMonitor(d, shufRecharge)
        seen == IF env # <<>> /\ Has(env, "vehicles")
                THEN MonitorTrafficOn(charged, env.vehicles)
                ELSE Completed(charged, FALSE)
    IN  IF seen.raised # "none" THEN [v |-> seen.v, raised |-> seen.raised]
        ELSE [v |-> MoveToWaypoint(seen.v, shufLoop), raised |-> "none"]

----------------------------------------------------------------------------
(* Grid *)

GridCells(gs) == {<<x, y>> : x \in 0..(gs - 1), y \in 0..(gs - 1)}

\* Grid.__init__ and Grid.clear
NewGrid(gs) ==
    [size |-> gs, cells |-> [c \in GridCells(gs) |-> <<>>], agents |-> <<>>]

\* Grid.add_agent
GridAddAgent(g, id, pos, type, st) ==
    IF InGrid(pos, g.size)
    THEN [g EXCEPT !.cells[pos] = Append(@, [id |-> id, type |-> type, state |-> st]),
                   !.agents = Put(g.agents, id, <<pos, type, st>>)]
    ELSE g

\* add_agent for each entry <<id, pos, type, state>> of a list, in order:
\* every cell gets the in-grid entries at it appended in list order, and the
\* agents dict the last in-grid entry of every id
GridAddAll(g, entries) ==
    LET inside == SelectSeq(entries, LAMBDA e : InGrid(e[2], g.size))
        ids == {inside[k][1] : k \in 1..Len(inside)}
        LastOf(id) == CHOOSE k \in 1..Len(inside) :
                         /\ inside[k][1] = id
                         /\ \A j \in (k + 1)..Len(inside) : inside[j][1] # id
    IN  [g EXCEPT
            !.cells = [c \in DOMAIN g.cells |->
                          LET at == SelectSeq(inside, LAMBDA e : e[2] = c)
                          IN  g.cells[c] \o
                              [k \in 1..Len(at) |->
                                  [id |-> at[k][1], type |-> at[k][3],
                                   state |-> at[k][4]]]],
            !.agents = [id \in (DOMAIN g.agents) \cup ids |->
                           IF id \in ids
                           THEN <<inside[LastOf(id)][2], inside[LastOf(id)][3],
                                  inside[LastOf(id)][4]>>
                           ELSE g.agents[id]]]

\* Grid.remove_agent: the first entry of this id is popped from the cell
\* the agents dict names, then the id is deleted from the dict
GridRemoveAgent(g, id) ==
    IF id \in DOMAIN g.agents
    THEN LET pos  == g.agents[id][1]
             cell == g.cells[pos]
             hits == {i \in 1..Len(cell) : cell[i].id = id}
         IN  [g EXCEPT !.cells[pos] =
                          IF hits = {} THEN cell
                          ELSE RemoveAt(cell, CHOOSE i \in hits : \A j \in hits : i <= j),
                       !.agents = Without(g.agents, id)]
    ELSE g

\* Grid.clear
GridClear(g) == NewGrid(g.size)

----------------------------------------------------------------------------
(* SimulationController *)

\* step() with the drones updated before the vehicles
StepOrderDronesFirst == <<"lights", "drones", "vehicles", "comms", "grid", "stats">>

\* the calls of step(), in its order
StepOrder == <<"lights", "vehicles", "drones", "comms", "grid", "stats">>

\* _create_traffic_lights: the positions, x outer and y inner
LightPositions(gs) ==
    LET interval == Max(1, gs \div 3)
        n == Max(0, (gs - 1) \div interval)
    IN  [k \in 1..(n * n) |->
            <<interval * (((k - 1) \div n) + 1), interval * (((k - 1) % n) + 1)>>]

\* _create_drones: the patrol box of the i-th drone (i from 0)
PatrolArea(i, gs) ==
    LET quadrant == i % 4
        half == gs \div 2
    IN  << <<IF quadrant \in {0, 2} THEN 0 ELSE half,
             IF quadrant \in {0, 1} THEN 0 ELSE half>>,
           <<IF quadrant \in {0, 2} THEN half - 1 ELSE gs - 1,
             IF quadrant \in {0, 1} THEN half - 1 ELSE gs - 1>> >>

\* _get_environment_data_for_light
EnvForLight(l, vs) ==
    LET near == SelectSeq(vs, LAMBDA v : ManhattanDist(l.position, v.position) <= 2)
    IN  [vehicles_ns |-> Len(SelectSeq(near, LAMBDA v : IsMovingNorthSouth(v))),
         vehicles_ew |-> Len(SelectSeq(near, LAMBDA v : ~IsMovingNorthSouth(v)))]

\* the light part of _get_environment_data_for_vehicle
NearbyLights(pos, ls) ==
    LET near == SelectSeq(ls, LAMBDA l : ManhattanDist(l.position, pos) <= 1)
    IN  [i \in 1..Len(near) |-> LightGetState(near[i])]

\* the congestion part of _get_environment_data_for_vehicle
CongestionAreas(msgs) ==
    LET cong == SelectSeq(GetMessagesResult(msgs, "anomaly_detected", <<>>),
                          LAMBDA m : m.type = "congestion")
    IN  [i \in 1..Len(cong) |-> [position |-> cong[i].position,
                                 level |-> cong[i].severity]]

\* _get_environment_data_for_vehicle
EnvForVehicle(v, ls, msgs) ==
    [traffic_lights |-> NearbyLights(v.position, ls),
     congestion |-> CongestionAreas(msgs)]

\* the vehicle list of _get_environment_data_for_drone
ActiveVehicleStates(vs) ==
    LET active == SelectSeq(vs, LAMBDA v : v.state # "ARRIVED")
    IN  [i \in 1..Len(active) |-> VehicleGetState(active[i])]

\* _get_environment_data_for_drone
EnvForDrone(vs) == [vehicles |-> ActiveVehicleStates(vs)]

\* message_bus.publish(t, m) on the history dict (the controller subscribes
\* nobody)
PublishTo(msgs, t, m, cap) == Put(msgs, t, DequeAppend(Get(msgs, t), m, cap))

RECURSIVE PublishAll(_, _, _, _)
\* publish(t, m) for each m of a list
PublishAll(msgs, t, ms, cap) ==
    IF ms = <<>> THEN msgs
    ELSE PublishAll(PublishTo(msgs, t, Head(ms), cap), t, Tail(ms), cap)

\* the number of elements step()'s call k loops over
RosterLen(k) ==
    IF StepOrder[k] = "lights" THEN Len(traffic_lights)
    ELSE IF StepOrder[k] = "vehicles" THEN Len(vehicles)
    ELSE IF StepOrder[k] = "drones" THEN Len(drones)
    ELSE 1

RECURSIVE Seek(_, _)
\* the position of step() at element i of call k, or past it
Seek(k, i) ==
    IF k > Len(StepOrder) THEN [k |-> 0, i |-> 0]
    ELSE IF i <= RosterLen(k) THEN [k |-> k, i |-> i]
    ELSE Seek(k + 1, 1)

Phase == IF pc.k = 0 THEN "idle" ELSE StepOrder[pc.k]

Logged(name) == IF phaseLog # <<>> /\ phaseLog[Len(phaseLog)] = name
                THEN phaseLog ELSE Append(phaseLog, name)

NoView == [tick |-> 0, position |-> <<0, 0>>, env |-> <<>>]

\* SimulationController.__init__ with what its random draws gave: per light
\* the initial phase, per vehicle <<start, destination>>, per drone the start
\* cell and the shuffled waypoints
ConstructFields(gs, lstates, routes, dstarts, shuffles) ==
    /\ grid = NewGrid(gs)
    /\ traffic_lights =
          [k \in 1..Len(LightPositions(gs)) |->
              NewLight(<<"TL", k>>, LightPositions(gs)[k], lstates[k])]
    /\ vehicles =
          [k \in 1..Len(routes) |-> NewVehicle(<<"V", k>>, routes[k][1], routes[k][2], gs)]
    /\ drones =
          [k \in 1..Len(dstarts) |->
              NewDrone(<<"D", k>>, dstarts[k], gs, PatrolArea(k - 1, gs), shuffles[k])]
    /\ stats = [vehicles_arrived |-> 0, total_waiting_time |-> 0,
                total_travel_time |-> 0, anomalies_detected |-> 0,
                congestion_events |-> 0]
    /\ current_step = 0
    /\ pc = [k |-> 0, i |-> 0]
    /\ lightTick = [k \in 1..Len(LightPositions(gs)) |-> 0]
    /\ lightView = [k \in 1..Len(LightPositions(gs)) |-> <<>>]
    /\ vehTick = [k \in 1..Len(routes) |-> 0]
    /\ droneTick = [k \in 1..Len(dstarts) |-> 0]
    /\ vehView = [k \in 1..Len(routes) |-> NoView]
    /\ droneView = [k \in 1..Len(dstarts) |-> NoView]
    /\ emittedNow = {}
    /\ emittedPrev = {}
    /\ emittedCount = [congestion |-> 0, incident |-> 0]
    /\ phaseLog = <<>>

\* SimulationController(gs, Len(routes), Len(dstarts)) returned the object
Construct(gs, lstates, routes, dstarts, shuffles) ==
    /\ ConstructFields(gs, lstates, routes, dstarts, shuffles)
    /\ built = [grid_size |-> gs, num_vehicles |-> Len(routes),
                num_drones |-> Len(dstarts), outcome |-> "ok"]

\* how SimulationController(gs, nv, nd) ends for gs = 0 and gs >= 2:
\* random.randint(0, gs - 1) raises ValueError on the empty range 0..-1, in
\* _create_vehicles when there is a vehicle to place, else in _create_drones
\* when there is a drone to place; __init__ itself tests nothing
ConstructorOutcome(gs, nv, nd) ==
    IF gs = 0 /\ nv > 0 THEN "ValueError"
    ELSE IF gs = 0 /\ nd > 0 THEN "ValueError"
    ELSE "ok"

\* print_stats() between ticks: the percentage divides by len(self.vehicles)
\* before the test len(self.vehicles) > 0 guards the averages
PrintStats ==
    /\ pc.k = 0
    /\ raised' = IF Len(vehicles) = 0 THEN "ZeroDivisionError" ELSE "none"
    /\ UNCHANGED <<busVars, signalVars, orchVars, vehVars, droneVars, built>>

\* step() begins: current_step += 1
BeginStep ==
    /\ pc.k = 0
    /\ current_step' = current_step + 1
    /\ pc' = Seek(1, 1)
    /\ emittedPrev' = emittedNow
    /\ emittedNow' = {}
    /\ phaseLog' = <<>>
    /\ UNCHANGED <<grid, traffic_lights, vehicles, drones, stats, lightTick, lightView, vehTick,
                   droneTick, vehView, droneView, emittedCount, messages,
                   subscribers>>

\* one round of the loop of _update_traffic_lights
UpdateLight ==
    /\ Phase = "lights"
    /\ LET l   == traffic_lights[pc.i]
           new == LightStep(l, EnvForLight(l, vehicles))
       IN  /\ traffic_lights' = [traffic_lights EXCEPT ![pc.i] = new]
           /\ messages' = PublishTo(messages, "traffic_light_update",
                                    [id |-> new.id, state |-> LightGetState(new)],
                                    max_history)
           /\ subscribers' = Put(subscribers, "traffic_light_update",
                                 Get(subscribers, "traffic_light_update"))
    /\ lightTick' = [lightTick EXCEPT ![pc.i] = current_step]
    /\ lightView' = [lightView EXCEPT ![pc.i] = EnvForLight(traffic_lights[pc.i], vehicles)]
    /\ pc' = Seek(pc.k, pc.i + 1)
    /\ phaseLog' = Logged("lights")
    /\ UNCHANGED <<grid, vehicles, drones, stats, current_step, vehTick, droneTick,
                   vehView, droneView, emittedNow, emittedPrev, emittedCount>>

\* one round of the loop of _update_vehicles
UpdateVehicle ==
    /\ Phase = "vehicles"
    /\ LET v   == vehicles[pc.i]
           env == EnvForVehicle(v, traffic_lights, messages)
       IN  IF v.state = "ARRIVED"
           THEN UNCHANGED <<vehicles, messages, subscribers, vehTick, vehView>>
           ELSE \E new \in VehicleStep(v, env) :
                   /\ vehicles' = [vehicles EXCEPT ![pc.i] = new]
                   /\ messages' = PublishTo(messages, "vehicle_update",
                                            [id |-> new.id, state |-> VehicleGetState(new)],
                                            max_history)
                   /\ subscribers' = Put(subscribers, "vehicle_update",
                                         Get(subscribers, "vehicle_update"))
                   /\ vehTick' = [vehTick EXCEPT ![pc.i] = current_step]
                   /\ vehView' = [vehView EXCEPT ![pc.i] =
                                     [tick |-> current_step, position |-> v.position,
                                      env |-> env]]
    /\ pc' = Seek(pc.k, pc.i + 1)
    /\ phaseLog' = Logged("vehicles")
    /\ UNCHANGED <<grid, traffic_lights, drones, stats, current_step, lightTick, lightView,
                   droneTick, droneView, emittedNow, emittedPrev, emittedCount>>

\* one round of the loop of _update_drones
UpdateDrone ==
    /\ Phase = "drones"
    /\ LET d   == drones[pc.i]
           env == EnvForDrone(vehicles)
       IN  \E new \in DroneStep(d, env) :
              /\ drones' = [drones EXCEPT ![pc.i] =
                               [new EXCEPT !.detected_anomalies = <<>>]]
              /\ messages' =
                    PublishTo(PublishAll(messages, "anomaly_detected",
                                         new.detected_anomalies, max_history),
                              "drone_update",
                              [id |-> new.id,
                               state |-> DroneGetState(
                                            [new EXCEPT !.detected_anomalies = <<>>])],
                              max_history)
              /\ subscribers' =
                    LET s1 == IF new.detected_anomalies # <<>>
                              THEN Put(subscribers, "anomaly_detected",
                                       Get(subscribers, "anomaly_detected"))
                              ELSE subscribers
                    IN  Put(s1, "drone_update", Get(s1, "drone_update"))
              /\ emittedNow' = emittedNow \cup
                    {[tick |-> current_step, position |-> new.detected_anomalies[j].position,
                      severity |-> new.detected_anomalies[j].severity] :
                        j \in {j \in 1..Len(new.detected_anomalies) :
                                  new.detected_anomalies[j].type = "congestion"}}
              /\ emittedCount' =
                    [congestion |-> emittedCount.congestion +
                        Len(SelectSeq(new.detected_anomalies,
                                      LAMBDA m : m.type = "congestion")),
                     incident |-> emittedCount.incident +
                        Len(SelectSeq(new.detected_anomalies,
                                      LAMBDA m : m.type = "incident"))]
              /\ droneView' = [droneView EXCEPT ![pc.i] =
                                  [tick |-> current_step, position |-> d.position,
                                   env |-> env]]
    /\ droneTick' = [droneTick EXCEPT ![pc.i] = current_step]
    /\ pc' = Seek(pc.k, pc.i + 1)
    /\ phaseLog' = Logged("drones")
    /\ UNCHANGED <<grid, traffic_lights, vehicles, stats, current_step, lightTick, lightView,
                   vehTick, vehView, emittedPrev>>

\* _process_communications without the call of message_bus.clear()
ProcessCommunicationsNoClear ==
    /\ Phase = "comms"
    /\ LET anomalies == GetMessagesResult(messages, "anomaly_detected", <<>>)
       IN  stats' = [stats EXCEPT
                !.congestion_events =
                    @ + Len(SelectSeq(anomalies, LAMBDA m : m.type = "congestion")),
                !.anomalies_detected =
                    @ + Len(SelectSeq(anomalies, LAMBDA m : m.type = "incident"))]
    /\ pc' = Seek(pc.k, pc.i + 1)
    /\ phaseLog' = phaseLog \o <<"drain", "clear">>
    /\ UNCHANGED <<grid, traffic_lights, vehicles, drones, current_step, subscribers,
                   messages, lightTick, lightView, vehTick, droneTick, vehView,
                   droneView, emittedNow, emittedPrev, emittedCount>>

\* _process_communications: tally the anomaly topic, then clear the bus
ProcessCommunications ==
    /\ Phase = "comms"
    /\ LET anomalies == GetMessagesResult(messages, "anomaly_detected", <<>>)
       IN  stats' = [stats EXCEPT
                !.congestion_events =
                    @ + Len(SelectSeq(anomalies, LAMBDA m : m.type = "congestion")),
                !.anomalies_detected =
                    @ + Len(SelectSeq(anomalies, LAMBDA m : m.type = "incident"))]
    /\ messages' = [t \in DOMAIN messages |-> <<>>]
    /\ pc' = Seek(pc.k, pc.i + 1)
    /\ phaseLog' = phaseLog \o <<"drain", "clear">>
    /\ UNCHANGED <<grid, traffic_lights, vehicles, drones, current_step, subscribers,
                   lightTick, lightView, vehTick, droneTick, vehView, droneView, emittedNow,
                   emittedPrev, emittedCount>>

\* the add_agent calls of _update_grid, in order: lights, vehicles not
\* ARRIVED, drones
GridRoster ==
    LET active == SelectSeq(vehicles, LAMBDA v : v.state # "ARRIVED")
        ls == [k \in 1..Len(traffic_lights) |->
                  <<traffic_lights[k].id, traffic_lights[k].position,
                    "traffic_light", traffic_lights[k].state>>]
        vs == [k \in 1..Len(active) |->
                  <<active[k].id, active[k].position, "vehicle", active[k].state>>]
        ds == [k \in 1..Len(drones) |->
                  <<drones[k].id, drones[k].position, "drone", drones[k].state>>]
    IN  ls \o vs \o ds

\* _update_grid without the call of grid.clear()
UpdateGridNoClear ==
    /\ Phase = "grid"
    /\ grid' = GridAddAll(grid, GridRoster)
    /\ pc' = Seek(pc.k, pc.i + 1)
    /\ phaseLog' = Logged("grid")
    /\ UNCHANGED <<traffic_lights, vehicles, drones, stats, current_step, messages,
                   subscribers, lightTick, lightView, vehTick, droneTick, vehView, droneView,
                   emittedNow, emittedPrev, emittedCount>>

\* _update_grid: clear, then add lights, vehicles not ARRIVED, drones
UpdateGrid ==
    /\ Phase = "grid"
    /\ grid' = GridAddAll(NewGrid(grid.size), GridRoster)
    /\ pc' = Seek(pc.k, pc.i + 1)
    /\ phaseLog' = Logged("grid")
    /\ UNCHANGED <<traffic_lights, vehicles, drones, stats, current_step, messages,
                   subscribers, lightTick, lightView, vehTick, droneTick, vehView, droneView,
                   emittedNow, emittedPrev, emittedCount>>

RECURSIVE SumFrom(_, _)
\* the sum of a list of numbers, from entry i on
SumFrom(ns, i) == IF i > Len(ns) THEN 0 ELSE ns[i] + SumFrom(ns, i + 1)

\* _update_statistics
UpdateStatistics ==
    /\ Phase = "stats"
    /\ stats' = [stats EXCEPT
          !.vehicles_arrived = Len(SelectSeq(vehicles, LAMBDA v : v.state = "ARRIVED")),
          !.total_waiting_time =
              SumFrom([k \in 1..Len(vehicles) |-> vehicles[k].waiting_time], 1),
          !.total_travel_time =
              SumFrom([k \in 1..Len(vehicles) |-> vehicles[k].total_travel_time], 1)]
    /\ pc' = Seek(pc.k, pc.i + 1)
    /\ phaseLog' = Logged("stats")
    /\ UNCHANGED <<grid, traffic_lights, vehicles, drones, current_step, messages,
                   subscribers, lightTick, lightView, vehTick, droneTick, vehView, droneView,
                   emittedNow, emittedPrev, emittedCount>>

\* the bus fields the controller's calls leave alone
BusRest == UNCHANGED <<max_history, busErr, issued, published, delivered, subCount,
                       misused, lastCall>>

----------------------------------------------------------------------------
(* SpecBus: subscriptions and dispatch. Every subscriber brings a callback *)
(* of its own (the k-th subscribe call registers callback k), callbacks    *)
(* only observe the message, and the payload of a publish is the topic's   *)
(* publish count.                                                          *)

SignalIdle == InitSignalWith("RED")
BusIdle == InitBusWith(DefaultMaxHistory)
\* a controller with no vehicles and no drones, never stepped
OrchIdle == Construct(2, <<"RED">>, <<>>, <<>>, <<>>)
\* what a specification of one component leaves alone
\* a vehicle and a drone just constructed, never stepped
VehIdle == InitVehWith(<<0, 0>>, <<1, 1>>, 2)
DroneIdle == InitDroneWith(<<0, 0>>, 2, PatrolArea(0, 2), Corners(PatrolArea(0, 2)) \o << <<0, 0>>, <<0, 0>>, <<0, 0>> >>)
AgentsIdle == VehIdle /\ DroneIdle
\* no call has let an exception out
CallsIdle == raised = "none"

BusOnly == UNCHANGED <<signalVars, orchVars, vehVars, droneVars, callVars>>
SignalOnly == UNCHANGED <<busVars, orchVars, vehVars, droneVars, callVars>>
OrchOnly == BusRest /\ UNCHANGED <<signalVars, vehVars, droneVars, callVars>>
VehOnly == UNCHANGED <<busVars, signalVars, orchVars, droneVars, callVars>>
DroneOnly == UNCHANGED <<busVars, signalVars, orchVars, vehVars, callVars>>

InitBus == InitBusWith(DefaultMaxHistory) /\ SignalIdle /\ OrchIdle /\ AgentsIdle /\ CallsIdle

NextBus ==
    \/ \E t \in Topics :
          /\ Len(published[t]) < MaxBusPublishes
          /\ Publish(t, Len(published[t]) + 1) /\ BusOnly
    \/ \E t \in Topics : subCount < MaxSubs /\ Subscribe(t, subCount + 1) /\ BusOnly
    \/ \E r \in issued : UnsubscribeHeld(r) /\ BusOnly
    \/ \E t \in Topics, h \in -1..MaxHandle : UnsubscribeStale(t, h) /\ BusOnly

SpecBus == InitBus /\ [][NextBus]_vars

(* SpecBusHistory: the retained history read back, any payloads *)

InitBusHistory == (\E cap \in HistoryCapacities : InitBusWith(cap)) /\ SignalIdle /\ OrchIdle /\ AgentsIdle /\ CallsIdle

NextBusHistory ==
    \/ \E t \in Topics, m \in Msgs :
          Len(published[t]) < MaxPublished /\ Publish(t, m) /\ BusOnly
    \/ \E t \in Topics, c \in 0..MaxCount : GetMessages(t, <<c>>) /\ BusOnly
    \/ \E t \in Topics : GetMessages(t, <<>>) /\ BusOnly
    \/ Clear /\ BusOnly

SpecBusHistory == InitBusHistory /\ [][NextBusHistory]_vars

(* SpecBusLong: one topic, up to LongPublishes publishes of distinct       *)
(* payloads (the publish count) between two clears                         *)

LongTopic == "anomaly_detected"

NextBusLong ==
    \/ /\ Len(published[LongTopic]) < LongPublishes
       /\ Publish(LongTopic, Len(published[LongTopic]) + 1) /\ BusOnly
    \/ Clear /\ BusOnly

SpecBusLong == InitBusHistory /\ [][NextBusLong]_vars

(* SpecBusReentrant: the MessageBus with callbacks that unsubscribe         *)
(* themselves while publish is calling them                                *)

MaxLiveSubs == 3
MaxLivePublishes == 2

InitBusReentrant ==
    InitBusWith(DefaultMaxHistory) /\ SignalIdle /\ OrchIdle /\ AgentsIdle /\ CallsIdle

NextBusReentrant ==
    \/ \E t \in Topics :
          /\ Len(published[t]) < MaxLivePublishes
          /\ PublishLive(t, Len(published[t]) + 1) /\ BusOnly
    \/ \E t \in Topics, quits \in BOOLEAN :
          subCount < MaxLiveSubs /\ SubscribeCallback(t, quits) /\ BusOnly
    \/ \E r \in issued : ~r.cb.quits /\ UnsubscribeHeld(r) /\ BusOnly

SpecBusReentrant == InitBusReentrant /\ [][NextBusReentrant]_vars

(* SpecSignalFixed: a light constructed RED and stepped without            *)
(* environment data                                                        *)

InitSignalFixed == InitSignalWith("RED") /\ BusIdle /\ OrchIdle /\ AgentsIdle /\ CallsIdle

NextSignalFixed == StepFixed /\ SignalOnly

SpecSignalFixed == InitSignalFixed /\ [][NextSignalFixed]_vars

(* SpecSignal: a light constructed in any phase and stepped with the       *)
(* per-axis vehicle counts the controller passes                           *)

InitSignal == (\E st \in LightStates : InitSignalWith(st)) /\ BusIdle /\ OrchIdle /\ AgentsIdle /\ CallsIdle

NextSignal ==
    \E ns \in 0..MaxAxisCount, ew \in 0..MaxAxisCount : StepAdaptive(ns, ew) /\ SignalOnly

SpecSignal == InitSignal /\ [][NextSignal]_vars

----------------------------------------------------------------------------
(* SpecOrch: a controller on a small grid, ticked MaxTicks times.  The      *)
(* constructor's random draws are inputs: the routes of the vehicles, the  *)
(* start cell and shuffled waypoints of each drone.  The light's initial   *)
(* phase ranges over all phases, as after any number of earlier ticks.     *)

\* <<start, destination>> pairs of _create_vehicles
InitRoutes == {<< <<0, 0>>, <<1, 1>> >>, << <<1, 1>>, <<0, 0>> >>}

\* start cells of _create_drones
InitDroneStarts == {<<0, 0>>, <<1, 1>>}

InitOrch ==
    /\ BusIdle
    /\ SignalIdle
    /\ AgentsIdle /\ CallsIdle
    /\ \E gs \in GridSizes :
       \E lstates \in [1..Len(LightPositions(gs)) -> LightStates] :
       \E routes \in [1..NumVehicles -> InitRoutes] :
       \E dstarts \in [1..NumDrones -> InitDroneStarts] :
       \E shuffles \in [1..NumDrones ->
                           UNION {PatrolShuffles(PatrolArea(k - 1, gs)) : k \in 1..NumDrones}] :
          /\ \A k \in 1..NumDrones : shuffles[k] \in PatrolShuffles(PatrolArea(k - 1, gs))
          /\ Construct(gs, lstates, routes, dstarts, shuffles)

NextOrch ==
    \/ (current_step < MaxTicks /\ BeginStep) /\ OrchOnly
    \/ UpdateLight /\ OrchOnly
    \/ UpdateVehicle /\ OrchOnly
    \/ UpdateDrone /\ OrchOnly
    \/ ProcessCommunications /\ OrchOnly
    \/ UpdateGrid /\ OrchOnly
    \/ UpdateStatistics /\ OrchOnly

SpecOrch == InitOrch /\ [][NextOrch]_vars

----------------------------------------------------------------------------
(* SpecVehicle: one vehicle with any route on a small grid, stepped with   *)
(* views that hold a light at its cell or not, congestion at its cell or   *)
(* not.                                                                    *)

\* the route pairs _create_vehicles can draw on a grid
Routes(gs) == {r \in GridCells(gs) \X GridCells(gs) : r[1] # r[2]}

\* a light's get_state() as a view holds it
LightAt(pos, st, dir) ==
    [id |-> <<"TL", 1>>, position |-> pos, state |-> st, direction |-> dir,
     timer |-> 0, congestion_level |-> 0]

\* views of _get_environment_data_for_vehicle for a vehicle at pos
VehicleViews(pos) ==
    {[traffic_lights |-> ls, congestion |-> cs] :
        ls \in {<<>>} \cup {<<LightAt(pos, st, dir)>> :
                                st \in {"RED", "GREEN"},
                                dir \in {"North-South", "East-West"}},
        cs \in {<<>>, <<[position |-> pos, level |-> 7]>>,
                <<[position |-> pos, level |-> 8]>>}}

InitVehicle ==
    /\ BusIdle /\ SignalIdle /\ OrchIdle /\ DroneIdle /\ CallsIdle
    /\ \E gs \in VehicleGridSizes :
       \E r \in Routes(gs) : InitVehWith(r[1], r[2], gs)

\* the view holds congestion that makes step() draw for a reroute
Severe(env) == \E i \in 1..Len(env.congestion) : env.congestion[i].level > 7

\* rerouting lengthens the path without limit: severe congestion is offered
\* while the path is no longer than MaxPathLen
NextVehicle ==
    /\ vehSteps < MaxVehicleSteps
    /\ \E env \in VehicleViews(veh.position) :
          /\ Severe(env) => Len(veh.path) <= MaxPathLen
          /\ StepVehicle(env)
    /\ VehOnly

SpecVehicle == InitVehicle /\ [][NextVehicle]_vars

(* SpecVehicleAny: one VehicleAgent constructed with any start and any     *)
(* destination of a small grid, the start itself included, stepped with    *)
(* the views of SpecVehicle.                                               *)

InitVehicleAny ==
    /\ BusIdle /\ SignalIdle /\ OrchIdle /\ DroneIdle /\ CallsIdle
    /\ \E gs \in VehicleGridSizes :
       \E start \in GridCells(gs), dest \in GridCells(gs) : InitVehWith(start, dest, gs)

NextVehicleAny ==
    /\ vehSteps < MaxVehicleSteps
    /\ \E env \in VehicleViews(veh.position) :
          /\ Severe(env) => Len(veh.path) <= MaxPathLen
          /\ StepVehicle(env)
    /\ VehOnly

SpecVehicleAny == InitVehicleAny /\ [][NextVehicleAny]_vars

(* SpecVehicleRoute: one vehicle with any route on the route grid, stepped *)
(* with a view that holds no light and no congestion.                      *)

NoObstacles == [traffic_lights |-> <<>>, congestion |-> <<>>]

InitVehicleRoute ==
    /\ BusIdle /\ SignalIdle /\ OrchIdle /\ DroneIdle /\ CallsIdle
    /\ \E r \in Routes(RouteGridSize) : InitVehWith(r[1], r[2], RouteGridSize)

NextVehicleRoute ==
    /\ vehSteps < MaxRouteSteps
    /\ StepVehicle(NoObstacles)
    /\ VehOnly

SpecVehicleRoute == InitVehicleRoute /\ [][NextVehicleRoute]_vars

----------------------------------------------------------------------------
(* SpecDroneLong: one drone stepped MaxLongSteps times, more than a full   *)
(* battery, with a view that holds no vehicle or four vehicles next to it. *)
(* The drones are the first drone of a 2x2 controller (its patrol box is   *)
(* the base cell) and the second drone of a 3x3 controller (its patrol box *)
(* is (1,0)..(2,0)).                                                       *)

\* <<grid_size, drone index from 0, start cell>>
LongDrones == {<<2, 0, <<0, 0>>>>, <<2, 0, <<1, 1>>>>, <<3, 1, <<2, 0>>>>}

\* draws of _generate_patrol_waypoints considered: the corners in order and
\* MinRandomPoints random cells, all the same cell
PatrolDraws(area) ==
    {Corners(area) \o [i \in 1..MinRandomPoints |-> c] : c \in BoxCells(area)}

\* a vehicle's get_state() as a view holds it
VehicleAt(k, pos, st, wt) ==
    [id |-> <<"V", k>>, position |-> pos, destination |-> pos, state |-> st,
     waiting_time |-> wt, total_travel_time |-> wt, stops |-> 0]

\* n MOVING vehicles at a cell
Crowd(n, pos) == [k \in 1..n |-> VehicleAt(k, pos, "MOVING", 0)]

LongViews == {<<>>, Crowd(4, <<1, 0>>)}

InitDroneLong ==
    /\ BusIdle /\ SignalIdle /\ OrchIdle /\ VehIdle /\ CallsIdle
    /\ \E c \in LongDrones :
       \E w \in PatrolDraws(PatrolArea(c[2], c[1])) :
          InitDroneWith(c[3], c[1], PatrolArea(c[2], c[1]), w)

NextDroneLong ==
    /\ droneSteps < MaxLongSteps
    /\ \E vs \in LongViews :
       \E a \in PatrolDraws(drone.patrol_area), b \in PatrolDraws(drone.patrol_area) :
          StepDrone(vs, a, b)
    /\ DroneOnly

SpecDroneLong == InitDroneLong /\ [][NextDroneLong]_vars

(* SpecDroneQuietFair: the same drones, never shown a vehicle, step()      *)
(* being called as long as the bound allows                                *)

NextDroneQuiet ==
    /\ droneSteps < MaxLongSteps
    /\ \E a \in PatrolDraws(drone.patrol_area), b \in PatrolDraws(drone.patrol_area) :
          StepDrone(<<>>, a, b)
    /\ DroneOnly

SpecDroneQuietFair ==
    InitDroneLong /\ [][NextDroneQuiet]_vars /\ WF_vars(NextDroneQuiet)

----------------------------------------------------------------------------
(* SpecDrone: the first drone of a 4x4 controller (its patrol box is       *)
(* (0,0)..(1,1)), started in its box or in the far corner, stepped with    *)
(* views that hold vehicles at the cells (1,1) and (3,3): none, three,     *)
(* four or more than ten, MOVING or WAITING for 10, 11 or 12 steps.        *)

DroneStarts == {<<0, 0>>, <<3, 3>>}

Waiting(k, pos, wt) == VehicleAt(k, pos, "WAITING", wt)

DroneViews ==
    {<<>>,
     Crowd(3, <<1, 1>>),
     Crowd(4, <<1, 1>>),
     Crowd(3, <<1, 1>>) \o <<VehicleAt(4, <<3, 3>>, "MOVING", 0),
                              VehicleAt(5, <<3, 3>>, "MOVING", 0)>>,
     <<Waiting(1, <<1, 1>>, 11), Waiting(2, <<1, 1>>, 10), Waiting(3, <<3, 3>>, 11),
       VehicleAt(4, <<1, 1>>, "MOVING", 11)>>,
     Crowd(4, <<3, 3>>) \o <<Waiting(5, <<3, 3>>, 11), Waiting(6, <<3, 3>>, 12)>>,
     Crowd(11, <<1, 1>>) \o <<Waiting(12, <<1, 1>>, 11)>>}

InitDrone ==
    /\ BusIdle /\ SignalIdle /\ OrchIdle /\ VehIdle /\ CallsIdle
    /\ \E start \in DroneStarts :
       \E w \in PatrolDraws(PatrolArea(0, 4)) :
          InitDroneWith(start, 4, PatrolArea(0, 4), w)

NextDrone ==
    /\ droneSteps < MaxDroneSteps
    /\ \E vs \in DroneViews :
       \E a \in PatrolDraws(drone.patrol_area), b \in PatrolDraws(drone.patrol_area) :
          StepDrone(vs, a, b)
    /\ DroneOnly

SpecDrone == InitDrone /\ [][NextDrone]_vars

----------------------------------------------------------------------------
(* SpecTally: a 2x2 controller whose vehicles all drew the route from the  *)
(* light's cell (1,1) to (0,0) and whose drones all start at (1,1).  The   *)
(* vehicles' first move is east-west and the light opens north-south, so   *)
(* they wait at the light; from tick 11 on every drone reports every one   *)
(* of them as an incident.                                                 *)

InitTally ==
    /\ BusIdle /\ SignalIdle /\ AgentsIdle /\ CallsIdle
    /\ \E lstates \in [1..Len(LightPositions(2)) -> LightStates] :
          Construct(2, lstates,
                    [k \in 1..TallyVehicles |-> << <<1, 1>>, <<0, 0>> >>],
                    [k \in 1..TallyDrones |-> <<1, 1>>],
                    [k \in 1..TallyDrones |->
                        CHOOSE w \in PatrolDraws(PatrolArea(k - 1, 2)) : TRUE])

NextTally ==
    \/ (current_step < MaxTallyTicks /\ BeginStep) /\ OrchOnly
    \/ UpdateLight /\ OrchOnly
    \/ UpdateVehicle /\ OrchOnly
    \/ UpdateDrone /\ OrchOnly
    \/ ProcessCommunications /\ OrchOnly
    \/ UpdateGrid /\ OrchOnly
    \/ UpdateStatistics /\ OrchOnly

SpecTally == InitTally /\ [][NextTally]_vars

----------------------------------------------------------------------------
(* SpecOrchLive: SimulationController(3, n, 0) for n in LiveRosters.  The  *)
(* 3x3 grid has lights at (1,1), (1,2), (2,1) and (2,2), each with any     *)
(* initial phase.  The routes drawn are one that meets two lights while    *)
(* moving east-west and one whose vehicle starts at a light with two cells *)
(* to go north-south and meets a second light.  The run is ticked          *)
(* MaxLiveTicks times: longer than a vehicle needs to be let through two   *)
(* lights one after the other.                                             *)

MaxLiveTicks == 182
ArrivalDeadline == 180
LiveGridSizes == {3}
LiveRosters == {1, 2}
LiveRoutes == {<< <<0, 1>>, <<2, 2>> >>,
               << <<1, 2>>, <<1, 0>> >>}

InitOrchLive ==
    /\ BusIdle /\ SignalIdle /\ AgentsIdle /\ CallsIdle
    /\ \E gs \in LiveGridSizes, n \in LiveRosters :
       \E lstates \in [1..Len(LightPositions(gs)) -> LightStates] :
       \E routes \in [1..n -> LiveRoutes] :
          Construct(gs, lstates, routes, <<>>, <<>>)

\* step() of a controller without drones: the loop of _update_drones has
\* no round
NextOrchLive ==
    \/ (current_step < MaxLiveTicks /\ BeginStep) /\ OrchOnly
    \/ UpdateLight /\ OrchOnly
    \/ UpdateVehicle /\ OrchOnly
    \/ ProcessCommunications /\ OrchOnly
    \/ UpdateGrid /\ OrchOnly
    \/ UpdateStatistics /\ OrchOnly

SpecOrchLive == InitOrchLive /\ [][NextOrchLive]_vars

----------------------------------------------------------------------------
(* SpecGrid: a 2x2 Grid used through add_agent, remove_agent and clear,    *)
(* with positions inside and outside the grid                              *)

MaxGridEntries == 3
GridIds == {"V-1", "V-2"}
GridPositions == GridCells(2) \cup {<<2, 0>>, <<0, -1>>}
GridStates == {"MOVING", "WAITING"}

GridOnly ==
    UNCHANGED <<traffic_lights, vehicles, drones, stats, current_step, pc, lightTick,
                lightView, vehTick, droneTick, vehView, droneView, emittedNow,
                emittedPrev, emittedCount, phaseLog, busVars, signalVars, vehVars,
                droneVars, callVars>>

AddAgent(id, pos, st) ==
    /\ Cardinality(UNION {{<<c, k>> : k \in 1..Len(grid.cells[c])} :
                              c \in DOMAIN grid.cells}) < MaxGridEntries
    /\ grid' = GridAddAgent(grid, id, pos, "vehicle", st)

RemoveAgent(id) == grid' = GridRemoveAgent(grid, id)

ClearGrid == grid' = GridClear(grid)

InitGrid == BusIdle /\ SignalIdle /\ OrchIdle /\ AgentsIdle /\ CallsIdle

NextGrid ==
    \/ \E id \in GridIds, pos \in GridPositions, st \in GridStates :
          AddAgent(id, pos, st) /\ GridOnly
    \/ \E id \in GridIds : RemoveAgent(id) /\ GridOnly
    \/ ClearGrid /\ GridOnly

SpecGrid == InitGrid /\ [][NextGrid]_vars

----------------------------------------------------------------------------
(* SpecConstruct: SimulationController(grid_size, num_vehicles, num_drones) *)
(* for small arguments, zero included; an object that was built is stepped *)
(* and asked for its statistics between ticks.                             *)

CtorGridSizes == {0, 2}
CtorVehicles == {0, 1, 2}
CtorDrones == {0, 1}

InitConstruct ==
    /\ BusIdle /\ SignalIdle /\ AgentsIdle /\ CallsIdle
    /\ \E gs \in CtorGridSizes, nv \in CtorVehicles, nd \in CtorDrones :
          IF ConstructorOutcome(gs, nv, nd) = "ok"
          THEN \E lstates \in [1..Len(LightPositions(gs)) -> LightStates] :
               \E routes \in [1..nv -> InitRoutes] :
               \E dstarts \in [1..nd -> InitDroneStarts] :
               \E shuffles \in [1..nd -> PatrolShuffles(PatrolArea(0, gs))] :
                  Construct(gs, lstates, routes, dstarts, shuffles)
          ELSE \* no object: the fields are those of an empty controller
               /\ ConstructFields(0, <<>>, <<>>, <<>>, <<>>)
               /\ built = [grid_size |-> gs, num_vehicles |-> nv, num_drones |-> nd,
                           outcome |-> ConstructorOutcome(gs, nv, nd)]

Built == built.outcome = "ok"

NextConstruct ==
    \/ (Built /\ current_step < MaxTicks /\ BeginStep) /\ OrchOnly
    \/ (Built /\ UpdateLight) /\ OrchOnly
    \/ (Built /\ UpdateVehicle) /\ OrchOnly
    \/ (Built /\ UpdateDrone) /\ OrchOnly
    \/ (Built /\ ProcessCommunications) /\ OrchOnly
    \/ (Built /\ UpdateGrid) /\ OrchOnly
    \/ (Built /\ UpdateStatistics) /\ OrchOnly
    \/ Built /\ PrintStats

SpecConstruct == InitConstruct /\ [][NextConstruct]_vars

----------------------------------------------------------------------------
(* SpecCreateFair: _create_vehicles(num_vehicles, grid_size) run step by   *)
(* step, the constructor not having returned yet.  built carries the       *)
(* call's locals: the vehicles made so far as <<start, destination>>, the  *)
(* current start and destination, and the place reached in the code.  The  *)
(* draws are fair: a destination other than the start is drawn sooner or   *)
(* later whenever one exists.                                              *)

CreateGridSizes == {1, 2}
CreateVehicles == {1, 2}

CreateOnly == UNCHANGED <<busVars, signalVars, orchVars, vehVars, droneVars, raised>>

InitCreate ==
    /\ BusIdle /\ SignalIdle /\ AgentsIdle /\ CallsIdle
    /\ ConstructFields(0, <<>>, <<>>, <<>>, <<>>)
    /\ \E gs \in CreateGridSizes, nv \in CreateVehicles :
          built = [grid_size |-> gs, num_vehicles |-> nv, num_drones |-> 0,
                   outcome |-> "running", at |-> "for", made |-> <<>>,
                   start |-> <<0, 0>>, destination |-> <<0, 0>>]

\* for i in range(num_vehicles): start is drawn and destination = start;
\* after the last round the list is returned
DrawStart ==
    /\ built.outcome = "running" /\ built.at = "for"
    /\ IF Len(built.made) < built.num_vehicles
       THEN \E c \in GridCells(built.grid_size) :
               built' = [built EXCEPT !.start = c, !.destination = c, !.at = "while"]
       ELSE built' = [built EXCEPT !.outcome = "ok", !.at = "return"]

\* while destination == start: the test; when it fails the vehicle is made
\* and appended
TestDestination ==
    /\ built.outcome = "running" /\ built.at = "while"
    /\ IF built.destination = built.start
       THEN built' = [built EXCEPT !.at = "draw"]
       ELSE built' = [built EXCEPT !.made = Append(@, <<built.start, built.destination>>),
                                   !.at = "for"]

\* the loop's body: a draw that gives the start again
DrawSame ==
    /\ built.outcome = "running" /\ built.at = "draw"
    /\ built' = [built EXCEPT !.destination = built.start, !.at = "while"]

\* the loop's body: a draw that gives another cell
DrawOther ==
    /\ built.outcome = "running" /\ built.at = "draw"
    /\ \E c \in GridCells(built.grid_size) \ {built.start} :
          built' = [built EXCEPT !.destination = c, !.at = "while"]

NextCreate ==
    \/ DrawStart /\ CreateOnly
    \/ TestDestination /\ CreateOnly
    \/ DrawSame /\ CreateOnly
    \/ DrawOther /\ CreateOnly

SpecCreateFair ==
    InitCreate /\ [][NextCreate]_vars /\ WF_vars(NextCreate)
               /\ SF_vars(DrawOther /\ CreateOnly)

----------------------------------------------------------------------------
(* SpecMalformed: one light, one vehicle and one drone of a 2x2 grid, each *)
(* stepped on its own with views in which a field may be missing, at top   *)
(* level or inside a record.                                               *)

\* step() calls in all
MaxMalformedSteps == 3

Calls == steps + vehSteps + droneSteps

\* every record of rs, and every record of rs with one of the keys ks missing
WithOneMissing(rs, ks) == rs \cup {Without(r, k) : r \in rs, k \in ks}

\* get_state() of the light at (1,1), and the same with a field missing
RawLightRecords ==
    WithOneMissing({LightGetState([NewLight(<<"TL", 1>>, <<1, 1>>, st)
                                      EXCEPT !.direction = dir]) :
                       st \in {"RED", "GREEN"}, dir \in {0, 1}},
                   {"id", "position", "state", "direction"})

\* congestion records as _get_environment_data_for_vehicle builds them, and
\* the same with a field missing
RawAreaRecords ==
    WithOneMissing({[position |-> <<1, 1>>, level |-> n] : n \in {5, 8}},
                   {"position", "level"})

\* views for the vehicle: None, both lists, one list only
RawVehicleViews ==
    {<<>>}
    \cup {[traffic_lights |-> <<l>>, congestion |-> <<a>>] :
             l \in RawLightRecords, a \in RawAreaRecords}
    \cup {[traffic_lights |-> <<l>>] : l \in RawLightRecords}
    \cup {[congestion |-> <<a>>] : a \in RawAreaRecords}

\* views for the drone: None, no vehicle list, one record with or without a
\* missing field
RawDroneViews ==
    {<<>>, [congestion |-> <<>>]}
    \cup {[vehicles |-> <<r>>] :
             r \in WithOneMissing({VehicleAt(1, <<1, 1>>, st, wt) :
                                      st \in {"MOVING", "WAITING"}, wt \in {0, 11}},
                                  {"id", "position", "state", "waiting_time"})}

\* views for the light: None, both counts, one count only
RawLightViews ==
    {<<>>} \cup WithOneMissing({[vehicles_ns |-> n, vehicles_ew |-> m] :
                                  n \in {0, 3}, m \in {0, 3}},
                               {"vehicles_ns", "vehicles_ew"})

InitMalformed ==
    /\ BusIdle /\ OrchIdle /\ CallsIdle
    /\ \E st \in LightStates : InitSignalWith(st)
    /\ InitVehWith(<<1, 1>>, <<0, 0>>, 2)
    /\ InitDroneWith(<<1, 1>>, 2, PatrolArea(0, 2),
                     CHOOSE w \in PatrolDraws(PatrolArea(0, 2)) : TRUE)

StepVehicleOn ==
    /\ Calls < MaxMalformedSteps
    /\ \E env \in RawVehicleViews :
       \E o \in VehicleStepOn(veh, env) :
          /\ veh' = o.v
          /\ lastVehEnv' = env
          /\ raised' = o.raised
          /\ trail' = IF o.v.position # veh.position THEN Append(trail, o.v.position)
                      ELSE trail
    /\ prevVeh' = veh
    /\ vehSteps' = vehSteps + 1
    /\ UNCHANGED <<busVars, signalVars, orchVars, droneVars, built>>

StepDroneOn ==
    /\ Calls < MaxMalformedSteps
    /\ \E env \in RawDroneViews :
       \E a \in PatrolDraws(drone.patrol_area) :
          LET o == DroneStepOn(drone, env, a, a)
          IN  /\ drone' = [o.v EXCEPT !.detected_anomalies = <<>>]
              /\ raised' = o.raised
              /\ lastView' = DictGet(env, "vehicles", <<>>)
              /\ lastEmitted' = o.v.detected_anomalies
              /\ anomalySeen' = (anomalySeen \/ o.v.detected_anomalies # <<>>)
    /\ prevDrone' = drone
    /\ droneSteps' = droneSteps + 1
    /\ UNCHANGED <<busVars, signalVars, orchVars, vehVars, built>>

StepLightOn ==
    /\ Calls < MaxMalformedSteps
    /\ \E env \in RawLightViews : SignalStep(env)
    /\ steps' = steps + 1
    /\ raised' = "none"
    /\ UNCHANGED <<busVars, orchVars, vehVars, droneVars, built>>

NextMalformed ==
    \/ StepVehicleOn
    \/ StepDroneOn
    \/ StepLightOn

SpecMalformed == InitMalformed /\ [][NextMalformed]_vars

----------------------------------------------------------------------------
(* SpecOrchHeard: a 2x2 controller whose drones start at (1,1), and whose   *)
(* message_bus observers subscribe to before the first tick; their          *)
(* callbacks only observe.                                                  *)

InitOrchHeard ==
    /\ BusIdle /\ SignalIdle /\ AgentsIdle /\ CallsIdle
    /\ \E lstates \in [1..Len(LightPositions(2)) -> LightStates] :
       \E routes \in [1..NumVehicles -> InitRoutes] :
          Construct(2, lstates, routes, [k \in 1..NumDrones |-> <<1, 1>>],
                    [k \in 1..NumDrones |->
                        CHOOSE w \in PatrolDraws(PatrolArea(k - 1, 2)) : TRUE])

NextOrchHeard ==
    \/ \E t \in Topics :
          /\ current_step = 0 /\ pc.k = 0 /\ subCount < MaxSubs
          /\ Subscribe(t, subCount + 1) /\ BusOnly
    \/ (current_step < MaxTicks /\ BeginStep) /\ OrchOnly
    \/ UpdateLight /\ OrchOnly
    \/ UpdateVehicle /\ OrchOnly
    \/ UpdateDrone /\ OrchOnly
    \/ ProcessCommunications /\ OrchOnly
    \/ UpdateGrid /\ OrchOnly
    \/ UpdateStatistics /\ OrchOnly

SpecOrchHeard == InitOrchHeard /\ [][NextOrchHeard]_vars

----------------------------------------------------------------------------
(* Claims about the MessageBus *)

\* s without the element at 1-based position p, p being where x first occurs
WithoutFirst(s, x) ==
    IF \E i \in 1..Len(s) : s[i] = x
    THEN RemoveAt(s, CHOOSE i \in 1..Len(s) : s[i] = x /\ \A j \in 1..(i - 1) : s[j] # x)
    ELSE s

\* C1: handle stability. Whenever the holder of a handle returned by subscribe
\* calls unsubscribe(topic, handle), whatever was unsubscribed before, the
\* call removes exactly the holder's own callback from the topic's list and
\* no other callback. (Only holders have called unsubscribe so far.)
C1_HandleStability ==
    (lastCall.op = "unsubscribe_held" /\ ~misused) =>
        /\ \E i \in 1..Len(lastCall.before) : lastCall.before[i] = lastCall.cb
        /\ Get(subscribers, lastCall.topic) = WithoutFirst(lastCall.before, lastCall.cb)

\* C2: unsubscribe(topic, handle) with a handle nobody holds for that topic
\* (already used, or never returned by subscribe) leaves the topic's
\* subscriber list unchanged and raises no error.
C2_StaleUnsubscribeNoOp ==
    lastCall.op = "unsubscribe_stale" =>
        /\ Get(subscribers, lastCall.topic) = lastCall.before
        /\ busErr = "none"

\* C6: publish(topic, m) appends m to the topic's history and invokes each
\* callback subscribed to the topic exactly once with m, in subscription
\* order; it invokes no callback of another topic; a topic never seen before
\* is created without error.
C6_PublishDispatch ==
    lastCall.op = "publish" =>
        LET t == lastCall.topic
            m == lastCall.msg
        IN  /\ busErr = "none"
            /\ t \in DOMAIN messages /\ t \in DOMAIN subscribers
            /\ messages[t] = LastN(Append(lastCall.hist, m), max_history)
            /\ Len(delivered) = Len(lastCall.before)
            /\ \A i \in 1..Len(delivered) : delivered[i] = <<lastCall.before[i], m>>
            /\ \A u \in (DOMAIN subscribers) \ {t} :
                  \A j \in 1..Len(subscribers[u]) :
                     \A i \in 1..Len(delivered) : delivered[i][1] # subscribers[u][j]

\* C6's case: a publish to a topic with two subscribers and no history yet
C6_Witness ==
    /\ lastCall.op = "publish"
    /\ Len(lastCall.before) = 2
    /\ Len(delivered) = 2
    /\ lastCall.hist = <<>>

\* C5: bounded history. Since the last clear, a topic's retained history is
\* exactly the last min(k, N) of the k messages published to it, oldest
\* first; 150 publishes with capacity 100 retain exactly the last 100.
C5_BoundedHistory ==
    /\ \A t \in Topics : Get(messages, t) = LastN(published[t], max_history)
    /\ (max_history = 100 /\ Len(published[LongTopic]) = 150) =>
           messages[LongTopic] = [i \in 1..100 |-> 50 + i]

\* C5's case: 150 publishes to a topic of capacity 100
C5_Witness ==
    /\ max_history = 100
    /\ Len(published[LongTopic]) = 150
    /\ Len(messages[LongTopic]) = 100

\* C7: get_messages(topic, count) returns, for every count >= 0, exactly the
\* last min(count, retained) messages, newest last, never more than count;
\* without count, all retained messages; for a topic never published to,
\* the empty list.
C7_MessagesCount ==
    lastCall.op = "get_messages" =>
        /\ lastCall.count = <<>> => lastCall.result = lastCall.hist
        /\ lastCall.count # <<>> =>
              /\ lastCall.result =
                    LastN(lastCall.hist, Min(lastCall.count[1], Len(lastCall.hist)))
              /\ Len(lastCall.result) <= lastCall.count[1]
        /\ lastCall.topic \notin DOMAIN messages => lastCall.result = <<>>

----------------------------------------------------------------------------
(* Claims about the TrafficLightAgent *)

\* C8: fixed timing. A light constructed RED with durations 30/5/30 and
\* stepped without environment data is RED after steps 1..29, GREEN after
\* steps 30..59, YELLOW after steps 60..64 and RED again after step 65.
C8_FixedTiming ==
    /\ steps \in 1..29  => light.state = "RED"
    /\ steps \in 30..59 => light.state = "GREEN"
    /\ steps \in 60..64 => light.state = "YELLOW"
    /\ steps = 65       => light.state = "RED"

\* C8's case: the light after its 65th step
C8_Witness == steps = 65 /\ light.state = "RED" /\ light.timer = 0

\* the duration the light l has configured for phase st
DurationOf(l, st) ==
    IF st = "RED" THEN l.red_duration
    ELSE IF st = "YELLOW" THEN l.yellow_duration
    ELSE l.green_duration

\* C9 as stated: at each phase transition the ticks spent in the phase being
\* left equal the duration configured for that phase at the moment of the
\* transition, and the timer is 0 right after the transition.
C9_DurationExact ==
    leftTicks # -1 =>
        /\ leftTicks = DurationOf(light, prevLight.state)
        /\ light.timer = 0

\* C9 as amended: a phase is left at the first step at which the ticks spent
\* in it have reached its configured duration. The ticks spent are never
\* fewer than the duration configured at the transition; they equal it for
\* RED and YELLOW, and exceed it by at most 5 for GREEN (when tuning lowered
\* greenDuration during the phase). The timer is 0 right after a transition.
C9_DurationAtLeast ==
    /\ leftTicks # -1 =>
          /\ light.timer = 0
          /\ leftTicks >= DurationOf(light, prevLight.state)
          /\ prevLight.state \in {"RED", "YELLOW"} =>
                leftTicks = DurationOf(light, prevLight.state)
          /\ prevLight.state = "GREEN" => leftTicks <= light.green_duration + 5
    /\ leftTicks = -1 =>
          /\ phaseTicks < DurationOf(light, light.state)
          /\ light.timer = phaseTicks

\* C9's case: GREEN is left after more ticks than greenDuration is then
C9_Witness ==
    /\ leftTicks # -1
    /\ prevLight.state = "GREEN"
    /\ light.state = "YELLOW"
    /\ leftTicks > light.green_duration

\* C10: the open axis flips exactly once in a step that goes RED -> GREEN and
\* is unchanged by every other step; the only transitions are RED -> GREEN,
\* GREEN -> YELLOW and YELLOW -> RED.
C10_AxisToggle ==
    LET redToGreen == prevLight.state = "RED" /\ light.state = "GREEN"
    IN  /\ redToGreen => light.direction = 1 - prevLight.direction
        /\ ~redToGreen => light.direction = prevLight.direction
        /\ light.direction \in {0, 1}
        /\ light.state # prevLight.state =>
              <<prevLight.state, light.state>> \in
                  {<<"RED", "GREEN">>, <<"GREEN", "YELLOW">>, <<"YELLOW", "RED">>}

\* C10's case: a step took the light from RED to GREEN and flipped the axis
C10_Witness ==
    /\ prevLight.state = "RED"
    /\ light.state = "GREEN"
    /\ light.direction # prevLight.direction
    /\ leftTicks = 30

----------------------------------------------------------------------------
(* Claims about the SimulationController *)

\* the congestion entry a vehicle's view holds for an emitted anomaly
ViewEntry(a) == [position |-> a.position, level |-> a.severity]

InView(i, a) ==
    \E j \in 1..Len(vehView[i].env.congestion) :
        vehView[i].env.congestion[j] = ViewEntry(a)

\* C3: every congestion anomaly a drone emitted in tick t is in the congestion
\* part of the view handed to each vehicle stepped in tick t+1, and an anomaly
\* emitted in tick t is in no view handed out in tick t.
C3_OneTickLag ==
    \A i \in 1..Len(vehicles) :
        (current_step > 0 /\ vehView[i].tick = current_step) =>
            /\ \A a \in emittedPrev : InView(i, a)
            /\ \A a \in emittedNow :
                   InView(i, a) => \E b \in emittedPrev : ViewEntry(b) = ViewEntry(a)

IsPrefix(s, t) == Len(s) <= Len(t) /\ \A k \in 1..Len(s) : s[k] = t[k]

\* C4: within one step() every light is stepped before any vehicle, every
\* vehicle that is not ARRIVED before any drone, and the anomaly tally, the bus
\* clear, the grid rebuild and the statistics follow in that order; a vehicle's
\* view holds the lights' states after this tick's light steps, and a drone's
\* view holds the vehicles' states after this tick's vehicle steps.
C4_PhaseOrder ==
    /\ IsPrefix(phaseLog, <<"lights", "vehicles", "drones", "drain", "clear",
                            "grid", "stats">>)
    /\ current_step > 0 =>
          /\ \A i \in 1..Len(vehicles) :
                vehTick[i] = current_step =>
                    /\ \A l \in 1..Len(traffic_lights) : lightTick[l] = current_step
                    /\ vehView[i].env.traffic_lights =
                           NearbyLights(vehView[i].position, traffic_lights)
          /\ \A d \in 1..Len(drones) :
                droneTick[d] = current_step =>
                    /\ \A i \in 1..Len(vehicles) :
                          vehicles[i].state # "ARRIVED" => vehTick[i] = current_step
                    /\ droneView[d].env.vehicles = ActiveVehicleStates(vehicles)
          /\ (\E k \in 1..Len(phaseLog) : phaseLog[k] = "drain") =>
                \A d \in 1..Len(drones) : droneTick[d] = current_step

\* a finished tick in which a vehicle was handed a light whose timer counts
\* this tick's step, and a drone was handed a vehicle at the cell it moved to
\* in this tick
C4_Witness ==
    /\ pc.k = 0
    /\ current_step >= 1
    /\ phaseLog = <<"lights", "vehicles", "drones", "drain", "clear", "grid", "stats">>
    /\ \E i \in 1..Len(vehicles) :
          /\ vehView[i].tick = current_step
          /\ \E j \in 1..Len(vehView[i].env.traffic_lights) :
                vehView[i].env.traffic_lights[j].timer = current_step
    /\ \E i \in 1..Len(vehicles), d \in 1..Len(drones) :
          /\ vehView[i].tick = current_step
          /\ vehicles[i].position # vehView[i].position
          /\ droneView[d].tick = current_step
          /\ \E j \in 1..Len(droneView[d].env.vehicles) :
                /\ droneView[d].env.vehicles[j].id = vehicles[i].id
                /\ droneView[d].env.vehicles[j].position = vehicles[i].position
----------------------------------------------------------------------------
(* Claims about the TrafficLightAgent's adaptive timing *)

\* C11: in every reachable state of a light stepped with any per-axis vehicle
\* counts, green_duration is within [15, 45].
C11_GreenDurationBounds ==
    light.green_duration >= 15 /\ light.green_duration <= 45

\* a step that shortened the green time at the floor: only the shortening
\* branches leave green_duration unchanged at 15
C11_Witness ==
    /\ prevLight.green_duration = 15
    /\ light.green_duration = 15
    /\ prevLight # light

----------------------------------------------------------------------------
(* Claims about the VehicleAgent *)

\* C12: for any sequence of steps with any views, rerouting included,
\* path_index never decreases and never exceeds len(path), and a vehicle that
\* is ARRIVED stays ARRIVED.
C12_PathIndexAndTerminal ==
    /\ veh.path_index >= prevVeh.path_index
    /\ veh.path_index <= Len(veh.path)
    /\ prevVeh.state = "ARRIVED" => veh.state = "ARRIVED"

\* an ARRIVED vehicle, rerouted on its way, was stepped again
C12_Witness ==
    /\ prevVeh.state = "ARRIVED"
    /\ veh.total_travel_time > prevVeh.total_travel_time
    /\ Len(veh.path) > ManhattanDist(trail[1], veh.destination)

\* C13: step() on an ARRIVED vehicle changes none of position, path,
\* path_index, state, waiting_time, stops, total_travel_time.
C13_ArrivedNoOp ==
    prevVeh.state = "ARRIVED" => veh = prevVeh

\* C14: an unobstructed vehicle is ARRIVED exactly from step |dx| + |dy| on,
\* never stops, and visits the x-axis cells first, then the y-axis cells; so
\* from (0,0) to (4,4) it is not ARRIVED after steps 1..7 and ARRIVED after
\* step 8.
C14_UnobstructedArrival ==
    LET start == trail[1]
        dest  == veh.destination
        dx    == Abs(dest[1] - start[1])
        dy    == Abs(dest[2] - start[2])
        k     == Min(vehSteps, dx + dy)
    IN  /\ (veh.state = "ARRIVED") <=> (vehSteps >= dx + dy)
        /\ veh.stops = 0
        /\ Len(trail) = k + 1
        /\ \A j \in 1..k :
              trail[j + 1] =
                 IF j <= dx
                 THEN <<start[1] + Sign(dest[1] - start[1]) * j, start[2]>>
                 ELSE <<dest[1], start[2] + Sign(dest[2] - start[2]) * (j - dx)>>

\* the vehicle from (0,0) to (4,4) arrives with its 8th step
C14_Witness ==
    /\ trail[1] = <<0, 0>>
    /\ veh.destination = <<4, 4>>
    /\ vehSteps = 8
    /\ prevVeh.state # "ARRIVED"
    /\ veh.state = "ARRIVED"

----------------------------------------------------------------------------
(* Claims about the DroneAgent; battery is counted in half percents *)

\* the last step() reset the battery at the base
Recharged == droneSteps > 0 /\ drone.battery = BatteryFull

\* C15: after any number of steps the battery is within [0, 100].
C15_BatteryRange ==
    drone.battery >= 0 /\ drone.battery <= BatteryFull

\* C16: a drone that was RETURNING before a step is PATROLLING after it only
\* if the step found it at the base cell and reset its battery.
C16_NoPatrolBeforeBase ==
    (prevDrone.state = "RETURNING" /\ drone.state = "PATROLLING") =>
        (prevDrone.position = BaseCell /\ Recharged)

\* C18: a drone that starts with a full battery and detects no anomaly is not
\* RETURNING after any of steps 1..160; after step 161 it is RETURNING, or,
\* if that step found it at the base cell, PATROLLING with a full battery.
C18_ReturnAtStep161 ==
    ~anomalySeen =>
        /\ droneSteps <= 160 => drone.state # "RETURNING"
        /\ droneSteps = 161 =>
              IF prevDrone.position = BaseCell
              THEN drone.state = "PATROLLING" /\ drone.battery = BatteryFull
              ELSE drone.state = "RETURNING"

\* step 161 of a drone away from the base that saw no anomaly
C18_Witness ==
    /\ ~anomalySeen
    /\ droneSteps = 161
    /\ prevDrone.position # BaseCell
    /\ prevDrone.state = "PATROLLING"
    /\ drone.state = "RETURNING"

NearView == SelectSeq(lastView, LAMBDA v : ManhattanDist(prevDrone.position, v.position) <= 2)

EmittedOfType(t) == SelectSeq(lastEmitted, LAMBDA a : a.type = t)

\* C19: a step emits a congestion anomaly iff more than 3 vehicles of the view
\* are within distance 2, and then exactly one, with severity min(10, count);
\* it emits an incident for a vehicle iff that vehicle is within distance 2,
\* WAITING and has waited more than 10 steps, exactly one per such vehicle.
C19_AnomalyConditions ==
    droneSteps > 0 =>
        /\ Len(EmittedOfType("congestion")) = (IF Len(NearView) > 3 THEN 1 ELSE 0)
        /\ \A j \in 1..Len(EmittedOfType("congestion")) :
              EmittedOfType("congestion")[j].severity = Min(10, Len(NearView))
        /\ Len(EmittedOfType("congestion")) + Len(EmittedOfType("incident"))
              = Len(lastEmitted)
        /\ \A i \in 1..Len(lastView) :
              Cardinality({j \in 1..Len(EmittedOfType("incident")) :
                              EmittedOfType("incident")[j].vehicle_id = lastView[i].id})
                 = (IF /\ ManhattanDist(prevDrone.position, lastView[i].position) <= 2
                       /\ lastView[i].state = "WAITING"
                       /\ lastView[i].waiting_time > 10
                    THEN 1 ELSE 0)
        /\ \A j \in 1..Len(EmittedOfType("incident")) :
              \E i \in 1..Len(lastView) :
                  EmittedOfType("incident")[j].vehicle_id = lastView[i].id

\* a step that saw more than ten vehicles nearby, one waiting too long, and
\* emitted the congestion capped at 10 and the incident
C19_Witness ==
    /\ droneSteps > 0
    /\ Len(NearView) > 10
    /\ Len(lastEmitted) = 2
    /\ lastEmitted[1].type = "congestion"
    /\ lastEmitted[1].severity = 10
    /\ lastEmitted[2].type = "incident"

\* C20: after any step, for any view, the drone's state is not REPORTING.
C20_NeverReporting ==
    drone.state # "REPORTING"

\* a step that reported an anomaly and left the drone PATROLLING
C20_Witness ==
    /\ droneSteps > 0
    /\ lastEmitted # <<>>
    /\ drone.state = "PATROLLING"

----------------------------------------------------------------------------
(* More claims about the SimulationController *)

\* C21: between ticks, congestion_events equals the number of congestion
\* anomalies the drones have emitted so far and anomalies_detected the number
\* of incident anomalies, however many were emitted in one tick.
C21_TallyExact ==
    pc.k = 0 =>
        /\ stats.congestion_events = emittedCount.congestion
        /\ stats.anomalies_detected = emittedCount.incident

\* the occupancy entries of the grid, as <<cell, index>>
Occupancy ==
    UNION {{<<c, k>> : k \in 1..Len(grid.cells[c])} : c \in DOMAIN grid.cells}

\* the grid holds exactly one entry of this id, at pos, with this type and
\* state, and the agents dict says the same
HasOneEntry(id, pos, type, st) ==
    /\ Cardinality({e \in Occupancy : grid.cells[e[1]][e[2]].id = id}) = 1
    /\ \E k \in 1..Len(grid.cells[pos]) :
          grid.cells[pos][k] = [id |-> id, type |-> type, state |-> st]
    /\ id \in DOMAIN grid.agents
    /\ grid.agents[id] = <<pos, type, st>>

LightsAndDronesOnGrid ==
    /\ \A k \in 1..Len(traffic_lights) :
          HasOneEntry(traffic_lights[k].id, traffic_lights[k].position,
                      "traffic_light", traffic_lights[k].state)
    /\ \A k \in 1..Len(drones) :
          HasOneEntry(drones[k].id, drones[k].position, "drone", drones[k].state)

AfterStep == pc.k = 0 /\ current_step > 0

\* C22: after every step the grid holds exactly one entry for every light,
\* every vehicle and every drone, at its current position with its current
\* type and state, and nothing else.
C22_GridMirrorsRosters ==
    AfterStep =>
        /\ LightsAndDronesOnGrid
        /\ \A k \in 1..Len(vehicles) :
              HasOneEntry(vehicles[k].id, vehicles[k].position, "vehicle",
                          vehicles[k].state)
        /\ Cardinality(Occupancy) = Len(traffic_lights) + Len(vehicles) + Len(drones)

\* C22 as the code has it: after every step the grid holds exactly one entry
\* for every light, every vehicle that is not ARRIVED and every drone, at its
\* current position with its current type and state; an ARRIVED vehicle has
\* no entry, and the grid holds nothing else.
C22_GridMirrorsActive ==
    AfterStep =>
        /\ LightsAndDronesOnGrid
        /\ \A k \in 1..Len(vehicles) :
              IF vehicles[k].state = "ARRIVED"
              THEN /\ \A e \in Occupancy : grid.cells[e[1]][e[2]].id # vehicles[k].id
                   /\ vehicles[k].id \notin DOMAIN grid.agents
              ELSE HasOneEntry(vehicles[k].id, vehicles[k].position, "vehicle",
                               vehicles[k].state)
        /\ Cardinality(Occupancy) =
              Len(traffic_lights) + Len(drones)
              + Len(SelectSeq(vehicles, LAMBDA v : v.state # "ARRIVED"))

\* after the second step or a later one: one vehicle ARRIVED in this step, so
\* the grid of the step before held its entry at the cell it came from, and
\* another vehicle is still under way
C22_Witness ==
    /\ AfterStep
    /\ current_step >= 2
    /\ \E k \in 1..Len(vehicles) :
          /\ vehicles[k].state = "ARRIVED"
          /\ vehTick[k] = current_step
          /\ vehView[k].position # vehicles[k].position
    /\ \E k \in 1..Len(vehicles) : vehicles[k].state # "ARRIVED"

\* C23: a controller asked for with grid size 0 or with no vehicle is not
\* built, and no print_stats() ends in a division by zero.
C23_ZeroRejected ==
    /\ (built.grid_size = 0 \/ built.num_vehicles = 0) => built.outcome # "ok"
    /\ raised # "ZeroDivisionError"

\* C24: no step() of a light, a vehicle or a drone lets an exception out,
\* whatever field the view lacks.
C24_NoStepRaises ==
    raised = "none"

----------------------------------------------------------------------------
(* More claims about the TrafficLightAgent *)

\* the count of the last view on the axis the light had open before the step
\* (direction 1 is East-West), and on the other axis
OpenCount == IF prevLight.direction = 1 THEN lastEnv.vehicles_ew ELSE lastEnv.vehicles_ns
OppositeCount == IF prevLight.direction = 1 THEN lastEnv.vehicles_ns ELSE lastEnv.vehicles_ew

Shortened == light.green_duration = Max(15, prevLight.green_duration - 5)
Relaxed == light.green_duration = Min(45, prevLight.green_duration + 1)

----------------------------------------------------------------------------
(* More claims about the VehicleAgent *)

\* the last step() was given one light record, of a light at the cell the
\* vehicle was at, and no congestion record, and the vehicle had not ARRIVED
SteppedAtLight ==
    /\ vehSteps > 0
    /\ prevVeh.state # "ARRIVED"
    /\ lastVehEnv # <<>>
    /\ Len(lastVehEnv.traffic_lights) = 1
    /\ lastVehEnv.traffic_lights[1].position = prevVeh.position
    /\ lastVehEnv.congestion = <<>>

\* the next unconsumed path cell of the vehicle before the step has the x of
\* its position
NextCellSameX ==
    /\ prevVeh.path_index < Len(prevVeh.path)
    /\ prevVeh.path[prevVeh.path_index + 1][1] = prevVeh.position[1]

\* C26: a vehicle that has not ARRIVED, stepped with a light at its cell and
\* no congestion, waits (WAITING, waiting_time + 1, position and path_index
\* kept) exactly if the light is RED or YELLOW or open on the axis the
\* vehicle does not move on, the vehicle moving north-south exactly if its
\* next path cell has its x, the last cell of the path included; otherwise
\* it advances one path cell.
C26_LightCompliance ==
    SteppedAtLight =>
        LET lt == lastVehEnv.traffic_lights[1]
            red == \/ lt.state \in {"RED", "YELLOW"}
                   \/ (lt.direction = "East-West" /\ NextCellSameX)
                   \/ (lt.direction = "North-South" /\ ~NextCellSameX)
        IN  IF red
            THEN /\ veh.state = "WAITING"
                 /\ veh.waiting_time = prevVeh.waiting_time + 1
                 /\ veh.position = prevVeh.position
                 /\ veh.path_index = prevVeh.path_index
            ELSE /\ veh.path_index = prevVeh.path_index + 1
                 /\ veh.position = prevVeh.path[prevVeh.path_index + 1]

\* C30: whenever a step changes the vehicle's position, the new cell is in
\* the grid and at Manhattan distance 1 from the old one, rerouting included.
C30_UnitMoves ==
    veh.position # prevVeh.position =>
        /\ ManhattanDist(veh.position, prevVeh.position) = 1
        /\ InGrid(veh.position, veh.grid_size)

----------------------------------------------------------------------------
(* Claims about ARRIVED vehicles in the SimulationController *)

\* a vehicle that is ARRIVED and was stepped in this tick arrived in it: the
\* step moved it to its destination
ArrivedNotStepped ==
    \A i \in 1..Len(vehicles) :
        (vehicles[i].state = "ARRIVED" /\ current_step > 0
            /\ vehTick[i] = current_step) =>
                /\ vehView[i].position # vehicles[i].position
                /\ vehicles[i].total_travel_time = current_step

\* the view of a drone stepped in this tick holds no ARRIVED vehicle (the
\* vehicles do not change after the drones' views are built)
ArrivedNotInDroneViews ==
    \A d \in 1..Len(drones) :
        (current_step > 0 /\ droneTick[d] = current_step) =>
            \A i \in 1..Len(vehicles) :
                vehicles[i].state = "ARRIVED" =>
                    \A j \in 1..Len(droneView[d].env.vehicles) :
                        droneView[d].env.vehicles[j].id # vehicles[i].id

\* while no vehicle has been stepped in this tick, the counts handed to a
\* light stepped in it are those of the vehicles that are not ARRIVED
ArrivedNotCounted ==
    (current_step > 0 /\ \A i \in 1..Len(vehicles) : vehTick[i] < current_step) =>
        \A l \in 1..Len(traffic_lights) :
            lightTick[l] = current_step =>
                lightView[l] =
                    EnvForLight(traffic_lights[l],
                                SelectSeq(vehicles, LAMBDA v : v.state # "ARRIVED"))

\* C27: an ARRIVED vehicle is never stepped by the controller, is in no
\* drone's view, and is counted on neither axis in the view of any light.
C27_ArrivedExcluded ==
    /\ ArrivedNotStepped
    /\ ArrivedNotInDroneViews
    /\ ArrivedNotCounted

----------------------------------------------------------------------------
(* Claims about what a step() leaves on the bus *)

\* the callbacks subscribed to topic t and not unsubscribed, in order
Registered(t) ==
    LET n == Cardinality({r \in issued : r.topic = t})
    IN  [h \in 1..n |-> (CHOOSE r \in issued : r.topic = t /\ r.handle = h - 1).cb]

\* C28: after every step() the history of every topic is empty and every
\* drone's detected_anomalies is empty; the subscriber lists are what the
\* subscribers registered, and the step of step() that clears the bus leaves
\* them as they were.
C28_StepLeavesBusEmpty ==
    /\ [](AfterStep =>
            /\ \A t \in DOMAIN messages : messages[t] = <<>>
            /\ \A d \in 1..Len(drones) : drones[d].detected_anomalies = <<>>
            /\ \A t \in Topics : Get(subscribers, t) = Registered(t))
    /\ [][Phase = "comms" => subscribers' = subscribers]_vars

\* after a step in which anomalies and state updates were published, on a bus
\* with a subscriber on the anomaly topic and one on another topic
C28_Witness ==
    /\ AfterStep
    /\ emittedNow # {}
    /\ \A t \in {"anomaly_detected", "traffic_light_update", "vehicle_update",
                  "drone_update"} : t \in DOMAIN messages
    /\ \A t \in Topics : Get(subscribers, t) # <<>>

----------------------------------------------------------------------------
(* More claims about the DroneAgent *)

\* C29: after every step the drone is inside the grid and at most one cell
\* away from where it was on each axis, whatever waypoint it heads for.
C29_UnitStepInGrid ==
    /\ InGrid(drone.position, drone.grid_size)
    /\ Abs(drone.position[1] - prevDrone.position[1]) <= 1
    /\ Abs(drone.position[2] - prevDrone.position[2]) <= 1

\* a step of a RETURNING drone whose waypoint, the base, was two cells away:
\* it moved one cell
C29_Witness ==
    /\ prevDrone.state = "RETURNING"
    /\ prevDrone.current_waypoint_index = 1
    /\ prevDrone.waypoints[2] = BaseCell
    /\ prevDrone.position = <<2, 0>>
    /\ drone.position = <<1, 0>>

----------------------------------------------------------------------------
(* Claims about the end of a vehicle's journey *)

\* C31: in every reachable state of a vehicle, rerouted or not, constructed
\* with a destination that may be its start, state ARRIVED implies that the
\* position is the destination.
C31_ArrivedAtDestination ==
    veh.state = "ARRIVED" => veh.position = veh.destination

\* a vehicle constructed at its destination whose last step drew a reroute
\* (severe congestion in the view, waiting_time kept) and then found its
\* path exhausted
C31_Witness ==
    /\ trail[1] = veh.destination
    /\ prevVeh.state # "ARRIVED"
    /\ veh.state = "ARRIVED"
    /\ lastVehEnv # <<>>
    /\ Severe(lastVehEnv)
    /\ veh.waiting_time = prevVeh.waiting_time
    /\ veh.path = <<>>

----------------------------------------------------------------------------
(* Claims about vehicles reaching their destination in a run of ticks.     *)

LongestWait ==
    LET RECURSIVE M(_)
        M(k) == IF k = 0 THEN 0
                ELSE IF vehicles[k].waiting_time > M(k - 1)
                     THEN vehicles[k].waiting_time ELSE M(k - 1)
    IN  M(Len(vehicles))

\* C32: in a run of ticks on a 3x3 grid with any initial phases of its four
\* lights, every vehicle is ARRIVED once step() has
\* returned ArrivalDeadline times: no vehicle waits at a light for ever,
\* each light opening each axis in turn.
C32_AllArriveByDeadline ==
    (AfterStep /\ current_step >= ArrivalDeadline)
        => \A k \in 1..Len(vehicles) : vehicles[k].state = "ARRIVED"

\* every vehicle has arrived, one of them after waiting at the light through
\* its RED phase and more
C32_Witness ==
    /\ AfterStep
    /\ \A k \in 1..Len(vehicles) : vehicles[k].state = "ARRIVED"
    /\ \E k \in 1..Len(vehicles) : vehicles[k].waiting_time > 30

----------------------------------------------------------------------------
(* Claims about callbacks that change the subscriber list.                 *)

\* the callbacks of the list the last publish started with that quit
Quitters == {i \in 1..Len(lastCall.before) : lastCall.before[i].quits}

TimesCalled(cb) == Cardinality({j \in 1..Len(delivered) : delivered[j][1] = cb})

\* C33: when one callback of the topic unsubscribes its own handle during a
\* publish, every other callback that was on the topic's list when the
\* publish began is called exactly once with the message.
C33_OthersStillCalledOnce ==
    (/\ lastCall.op = "publish"
     /\ Cardinality(Quitters) = 1
     /\ \A i \in Quitters : lastCall.before[i].handle = i - 1)
        => \A i \in 1..Len(lastCall.before) :
              i \notin Quitters => TimesCalled(lastCall.before[i]) = 1

----------------------------------------------------------------------------
(* Claims about the Grid's cells and its agents dict.                      *)

\* the cells that hold an entry of this id
CellsHolding(id) ==
    {c \in DOMAIN grid.cells : \E k \in 1..Len(grid.cells[c]) : grid.cells[c][k].id = id}

EntriesOf(id) == {e \in Occupancy : grid.cells[e[1]][e[2]].id = id}

\* C34: after any sequence of add_agent, remove_agent and clear, an id is in
\* the agents dict if and only if exactly one entry of the cells has that
\* id, and that entry is in the cell the dict names.
C34_IndexMatchesCells ==
    \A id \in GridIds :
        /\ id \in DOMAIN grid.agents <=> Cardinality(EntriesOf(id)) = 1
        /\ id \in DOMAIN grid.agents => CellsHolding(id) = {grid.agents[id][1]}

----------------------------------------------------------------------------
(* Claims about the constructor's draws.                                   *)

\* C35: for every grid size >= 1 and every number of vehicles >= 1,
\* _create_vehicles returns (the draws being fair), every vehicle made
\* having a destination other than its start.
C35_CreateVehiclesReturns ==
    <>(/\ built.outcome = "ok"
       /\ Len(built.made) = built.num_vehicles
       /\ \A k \in 1..Len(built.made) : built.made[k][1] # built.made[k][2])

====
